---- MODULE Spec2Model ----
(***************************************************************************)
(* Model of AttendenceManager/backend/server.py: the routes for users,     *)
(* students, classes, attendance and the dashboard, and get_current_user,  *)
(* over the MongoDB collections db.users, db.students, db.classes and      *)
(* db.attendance.                                                          *)
(*                                                                         *)
(* Every handler is an async coroutine: it can be suspended at each        *)
(* `await db....`, so a handler is a sequence of steps, one per storage    *)
(* round trip, and the steps of different requests interleave.  A request  *)
(* is served by a process p; pc[p] is its position in the handler and      *)
(* existing[p], idx[p], results[p], fetched[p] are the handler's locals.   *)
(*                                                                         *)
(* Encodings.  Strings are TLA+ strings; Python's None is the string       *)
(* "None", which no input of the model uses as a value.  A dict is a       *)
(* function whose DOMAIN is its key set.  uuid4() draws the next unused    *)
(* element of a pool.  A timestamp is a natural number (the instant the    *)
(* ISO string denotes); datetime.now() reads a clock that never goes back. *)
(* attendance_percentage is held in hundredths (60.0 is 6000).  A blank     *)
(* query parameter (?date=) is the empty string "".  plan is what the      *)
(* clients of a behaviour are going to send, where a specification fixes   *)
(* it in advance.                                                          *)
(***************************************************************************)
EXTENDS Integers, Sequences, FiniteSets, TLC

VARIABLES attendance, students, classes, users, clock,
          nextAtt, nextStu, nextCls, nextUsr, calls, plan,
          pc, req, existing, idx, results, fetched, resp

vars == <<attendance, students, classes, users, clock,
          nextAtt, nextStu, nextCls, nextUsr, calls, plan,
          pc, req, existing, idx, results, fetched, resp>>

(* ------------------------------ bounds ------------------------------- *)

\* Requests accepted in one behaviour of Spec.
MaxConcCalls == 3

\* Requests sent in one behaviour of SeqSpec.
MaxSeqCalls == 3

\* Requests sent in one behaviour of QuerySpec.
MaxQueryCalls == 4

\* Requests sent in one behaviour of ReportSpec.
MaxReportCalls == 5

\* Requests sent in one behaviour of ClassSpec.
MaxClassCalls == 4

\* Requests answered in one behaviour of AuthSpec.
MaxAuthCalls == 4

\* Requests sent in one behaviour of DirectorySpec.
MaxDirCalls == 4

\* Longest batch of EquivSpec.
MaxBatch == 2

\* Requests sent in one behaviour of RosterSpec.
MaxRosterCalls == 5

\* Requests sent in one behaviour of AnyCallerSpec.
MaxAnyCallerCalls == 4

\* Requests accepted in one behaviour of RaceReportSpec.
MaxRaceReportCalls == 4

\* Largest clock reading.
MaxClock == 1

(* ------------------------------ values ------------------------------- *)

None == "None"

Procs == {"p1", "p2"}

\* The process that issues the requests of a sequential behaviour.
Main == "p1"

\* Python truthiness of an Optional[str]: None and "" are both false.
Truthy(x) == x /= None /\ x /= ""

\* The result of find_one when no document matches.
NoDoc == [id |-> None]

Found(doc) == doc.id /= None

NoResp == [status |-> 0]

NoReq == [op |-> "none"]

\* uuid4(): the n-th identifier drawn for each collection.
AttUuid(n) == <<"a1", "a2", "a3", "a4", "a5", "a6", "a7", "a8", "a9">>[n]

StuUuid(n) == <<"s1", "s2", "s3", "s4", "s5", "s6", "s7", "s8", "s9">>[n]

ClsUuid(n) == <<"k1", "k2", "k3", "k4", "k5", "k6", "k7", "k8", "k9">>[n]

UsrUuid(n) == <<"u1", "u2", "u3", "u4", "u5", "u6", "u7", "u8", "u9">>[n]

\* The characters (code points) of the date strings the model uses.
Chars(s) ==
    CASE s = "" -> <<>>
      [] s = "2024-01-05" -> <<50, 48, 50, 52, 45, 48, 49, 45, 48, 53>>
      [] s = "2024-01-10" -> <<50, 48, 50, 52, 45, 48, 49, 45, 49, 48>>
      [] s = "2024-02-01" -> <<50, 48, 50, 52, 45, 48, 50, 45, 48, 49>>

RECURSIVE SeqLeq(_, _)
\* Lexicographic order on code point sequences; a proper prefix comes first.
SeqLeq(a, b) ==
    IF a = <<>> THEN TRUE
    ELSE IF b = <<>> THEN FALSE
    ELSE IF Head(a) < Head(b) THEN TRUE
    ELSE IF Head(a) > Head(b) THEN FALSE
    ELSE SeqLeq(Tail(a), Tail(b))

\* MongoDB's comparison of two strings ($gte / $lte).
StrLeq(a, b) == SeqLeq(Chars(a), Chars(b))

Min(S) == CHOOSE x \in S : \A y \in S : x <= y

\* cursor.to_list(n): at most the first n documents.
to_list(docs, n) == IF Len(docs) <= n THEN docs ELSE SubSeq(docs, 1, n)

\* The length limits the handlers pass to to_list.
AttendanceListLimit == 10000

StudentListLimit == 1000

ClassListLimit == 1000

RecentLimit == 10

(* --------------------------- persistence ----------------------------- *)

\* The filter without class_id: the first record of the student and date.
find_one_triple_anyClass(coll, s, c, d) ==
    LET hits == {i \in 1..Len(coll) :
                    /\ coll[i].student_id = s
                    /\ coll[i].date = d}
    IN IF hits = {} THEN NoDoc ELSE coll[Min(hits)]

\* db.attendance.find_one({student_id, class_id, date}): the first match.
find_one_triple(coll, s, c, d) ==
    LET hits == {i \in 1..Len(coll) :
                    /\ coll[i].student_id = s
                    /\ coll[i].class_id = c
                    /\ coll[i].date = d}
    IN IF hits = {} THEN NoDoc ELSE coll[Min(hits)]

\* db.<collection>.find_one({"id": id}).
find_one_id(coll, id) ==
    LET hits == {i \in 1..Len(coll) : coll[i].id = id}
    IN IF hits = {} THEN NoDoc ELSE coll[Min(hits)]

\* db.<collection>.update_one({"id": id}, {"$set": patch}): the first
\* document with that id gets the patch's fields, the others are kept.
update_one_id(coll, id, patch) ==
    LET hits == {i \in 1..Len(coll) : coll[i].id = id}
    IN IF hits = {} THEN coll
       ELSE [coll EXCEPT ![Min(hits)] =
                [k \in DOMAIN @ |-> IF k \in DOMAIN patch THEN patch[k] ELSE @[k]]]

\* db.<collection>.insert_one(doc).
insert_one(coll, doc) == Append(coll, doc)

\* db.<collection>.delete_one({"id": id}): the first document with that id
\* is removed; deleted_count tells whether there was one.
delete_one_id(coll, id) ==
    LET hits == {i \in 1..Len(coll) : coll[i].id = id}
    IN IF hits = {} THEN [coll |-> coll, deleted_count |-> 0]
       ELSE [coll |-> SubSeq(coll, 1, Min(hits) - 1)
                        \o SubSeq(coll, Min(hits) + 1, Len(coll)),
             deleted_count |-> 1]

(* ------------------------------ models ------------------------------- *)

\* AttendanceCreate(**fields): pydantic accepts the input when the four
\* required str fields are present and are not None.
ValidAttendanceCreate(inp) ==
    /\ {"student_id", "class_id", "date", "status"} \subseteq DOMAIN inp
    /\ \A k \in {"student_id", "class_id", "date", "status"} : inp[k] /= None

\* attendance_input.model_dump(): remarks defaults to None.
AttendanceCreate(inp) ==
    [student_id |-> inp.student_id,
     class_id |-> inp.class_id,
     date |-> inp.date,
     status |-> inp.status,
     remarks |-> IF "remarks" \in DOMAIN inp THEN inp.remarks ELSE None]

\* update_data without update_data['marked_by'] = current_user.id.
UpdateData_keepsMarkedBy(inp, user, now) ==
    [student_id |-> inp.student_id,
     class_id |-> inp.class_id,
     date |-> inp.date,
     status |-> inp.status,
     remarks |-> inp.remarks,
     updated_at |-> now]

\* update_data that also resets created_at, as a fresh Attendance(...) would.
UpdateData_resetsCreatedAt(inp, user, now) ==
    [student_id |-> inp.student_id,
     class_id |-> inp.class_id,
     date |-> inp.date,
     status |-> inp.status,
     remarks |-> inp.remarks,
     marked_by |-> user.id,
     created_at |-> now,
     updated_at |-> now]

\* update_data: the input's fields, marked_by and updated_at.
UpdateData(inp, user, now) ==
    [student_id |-> inp.student_id,
     class_id |-> inp.class_id,
     date |-> inp.date,
     status |-> inp.status,
     remarks |-> inp.remarks,
     marked_by |-> user.id,
     updated_at |-> now]

\* Attendance(**attendance_dict).model_dump(): id, created_at and updated_at
\* come from three default factories, evaluated in this order.
Attendance(inp, user, id, created, updated) ==
    [id |-> id,
     student_id |-> inp.student_id,
     class_id |-> inp.class_id,
     date |-> inp.date,
     status |-> inp.status,
     marked_by |-> user.id,
     remarks |-> inp.remarks,
     created_at |-> created,
     updated_at |-> updated]

\* The readings datetime.now() can give at or after clock reading t.
Now(t) == {u \in t..(t + 1) : u <= MaxClock}

(* ------------------------------- state ------------------------------- *)

Init ==
    /\ attendance = <<>>
    /\ students = <<>>
    /\ classes = <<>>
    /\ users = <<>>
    /\ clock = 0
    /\ nextAtt = 1
    /\ nextStu = 1
    /\ nextCls = 1
    /\ nextUsr = 1
    /\ calls = 0
    /\ plan = <<>>
    /\ pc = [p \in Procs |-> "idle"]
    /\ req = [p \in Procs |-> NoReq]
    /\ existing = [p \in Procs |-> NoDoc]
    /\ idx = [p \in Procs |-> 1]
    /\ results = [p \in Procs |-> <<>>]
    /\ fetched = [p \in Procs |-> <<>>]
    /\ resp = [p \in Procs |-> NoResp]

\* A request reaches its handler, at once or after get_current_user has
\* resolved the caller: the handler starts with fresh locals.
Begin(p, r, at) ==
    /\ pc[p] \in {"idle", "done", "auth"}
    /\ calls' = calls + 1
    /\ req' = [req EXCEPT ![p] = r]
    /\ pc' = [pc EXCEPT ![p] = at]
    /\ existing' = [existing EXCEPT ![p] = NoDoc]
    /\ idx' = [idx EXCEPT ![p] = 1]
    /\ results' = [results EXCEPT ![p] = <<>>]
    /\ fetched' = [fetched EXCEPT ![p] = <<>>]
    /\ resp' = [resp EXCEPT ![p] = NoResp]
    /\ UNCHANGED <<attendance, students, clock, nextAtt, nextStu,
                   users, classes, nextUsr, nextCls, plan>>

\* The handler returns (or raises): the response is sent.
Respond(p, r) ==
    /\ pc' = [pc EXCEPT ![p] = "done"]
    /\ resp' = [resp EXCEPT ![p] = r]

\* FastAPI answers a body that fails validation with 422 before the handler.
Reject(p, r) ==
    /\ pc[p] \in {"idle", "done", "auth"}
    /\ calls' = calls + 1
    /\ req' = [req EXCEPT ![p] = r]
    /\ Respond(p, [status |-> 422])
    /\ existing' = [existing EXCEPT ![p] = NoDoc]
    /\ idx' = [idx EXCEPT ![p] = 1]
    /\ results' = [results EXCEPT ![p] = <<>>]
    /\ fetched' = [fetched EXCEPT ![p] = <<>>]
    /\ UNCHANGED <<attendance, students, clock, nextAtt, nextStu,
                   users, classes, nextUsr, nextCls, plan>>

(* ------------------------- users and tokens -------------------------- *)

SECRET_KEY == "your-secret-key-change-in-production"

\* 60 * 24 minutes; the clock counts minutes.
ACCESS_TOKEN_EXPIRE_MINUTES == 60 * 24

\* bcrypt: a digest verifies the password it was made from.
hash_password(password) == <<"bcrypt", password>>

verify_password(plain_password, hashed_password) ==
    hashed_password = hash_password(plain_password)

\* EmailStr: the validated address with its domain in lower case; None for
\* a string that is not an address (the request is rejected).
EmailStr(e) ==
    CASE e = "ann@x.org" -> "ann@x.org"
      [] e = "ann@X.org" -> "ann@x.org"
      [] e = "bob@x.org" -> "bob@x.org"
      [] OTHER -> None

\* UserCreate: email, password and name are required; role defaults.
ValidUserCreate(inp) ==
    /\ {"email", "password", "name"} \subseteq DOMAIN inp
    /\ \A k \in {"email", "password", "name"} : inp[k] /= None
    /\ EmailStr(inp.email) /= None
    /\ "role" \in DOMAIN inp => inp.role /= None

UserCreate(inp) ==
    [email |-> EmailStr(inp.email),
     password |-> inp.password,
     name |-> inp.name,
     role |-> IF "role" \in DOMAIN inp THEN inp.role ELSE "teacher"]

\* User(**user_dict): the password is not a field of User.
User(inp, id, created) ==
    [id |-> id,
     email |-> inp.email,
     name |-> inp.name,
     role |-> inp.role,
     created_at |-> created]

\* db.users.find_one({"email": email})
find_one_email(coll, email) ==
    LET hits == {i \in 1..Len(coll) : coll[i].email = email}
    IN IF hits = {} THEN NoDoc ELSE coll[Min(hits)]

\* POST /auth/register with body inp; no credential is asked for.
CallRegister(p, inp) ==
    /\ pc[p] /= "auth"
    /\ LET r == [op |-> "register", input |-> inp]
       IN IF ValidUserCreate(inp)
          THEN Begin(p, [r EXCEPT !.input = UserCreate(inp)], "register_find")
          ELSE Reject(p, r)

\* register inserting without looking for the email.
RegisterFind_noCheck(p) ==
    /\ pc[p] = "register_find"
    /\ existing' = [existing EXCEPT ![p] = NoDoc]
    /\ pc' = [pc EXCEPT ![p] = "register_insert"]
    /\ UNCHANGED <<attendance, students, clock, nextAtt, nextStu, calls,
                   users, classes, nextUsr, nextCls, plan,
                   req, idx, results, fetched, resp>>

\* existing_user = await db.users.find_one({"email": ..}); 400 if found
RegisterFind(p) ==
    /\ pc[p] = "register_find"
    /\ LET doc == find_one_email(users, req[p].input.email)
       IN /\ existing' = [existing EXCEPT ![p] = doc]
          /\ IF Found(doc)
             THEN Respond(p, [status |-> 400])
             ELSE /\ pc' = [pc EXCEPT ![p] = "register_insert"]
                  /\ UNCHANGED resp
    /\ UNCHANGED <<attendance, students, clock, nextAtt, nextStu, calls,
                   users, classes, nextUsr, nextCls, plan,
                   req, idx, results, fetched>>

\* user = User(..); doc['password'] = hashed_pw; await db.users.insert_one(doc)
RegisterInsert(p) ==
    /\ pc[p] = "register_insert"
    /\ \E created \in Now(clock) :
          LET user == User(req[p].input, UsrUuid(nextUsr), created)
              doc == [id |-> user.id,
                      email |-> user.email,
                      name |-> user.name,
                      role |-> user.role,
                      created_at |-> user.created_at,
                      password |-> hash_password(req[p].input.password)]
          IN /\ clock' = created
             /\ users' = insert_one(users, doc)
             /\ Respond(p, [status |-> 200, body |-> user])
    /\ nextUsr' = nextUsr + 1
    /\ UNCHANGED <<attendance, students, classes, nextAtt, nextStu, nextCls, calls,
                   plan, req, existing, idx, results, fetched>>

\* UserLogin: email and password are required.
ValidUserLogin(inp) ==
    /\ {"email", "password"} \subseteq DOMAIN inp
    /\ \A k \in {"email", "password"} : inp[k] /= None
    /\ EmailStr(inp.email) /= None

\* jwt.encode({"sub": .., "exp": now + 24 h}, SECRET_KEY): a token is its
\* claims and the key it was signed with.
create_access_token(data, now) ==
    [kind |-> "jwt",
     key |-> SECRET_KEY,
     claims |-> [sub |-> data.sub, exp |-> now + ACCESS_TOKEN_EXPIRE_MINUTES]]

\* POST /auth/login with body inp; no credential is asked for.
CallLogin(p, inp) ==
    /\ pc[p] /= "auth"
    /\ LET r == [op |-> "login", input |-> inp]
       IN IF ValidUserLogin(inp)
          THEN Begin(p, [r EXCEPT !.input.email = EmailStr(inp.email)], "login_find")
          ELSE Reject(p, r)

\* user_doc = await db.users.find_one({"email": ..}); 401 for an unknown
\* email or a wrong password; else the token and the user.
LoginFind(p) ==
    /\ pc[p] = "login_find"
    /\ LET doc == find_one_email(users, req[p].input.email)
       IN IF ~Found(doc) THEN Respond(p, [status |-> 401]) /\ UNCHANGED clock
          ELSE IF ~verify_password(req[p].input.password, doc.password)
          THEN Respond(p, [status |-> 401]) /\ UNCHANGED clock
          ELSE \E now \in Now(clock) :
                  /\ clock' = now
                  /\ Respond(p, [status |-> 200,
                                 access_token |-> create_access_token([sub |-> doc.id], now),
                                 token_type |-> "bearer",
                                 user |-> User(doc, doc.id, doc.created_at)])
    /\ UNCHANGED <<attendance, students, nextAtt, nextStu, calls,
                   users, classes, nextUsr, nextCls, plan,
                   req, existing, idx, results, fetched>>

\* jwt.decode(token, SECRET_KEY, algorithms=[ALGORITHM]) at time now: the
\* signature is verified first, then the expiry.
jwt_decode(token, now) ==
    IF token.kind /= "jwt" THEN [error |-> "InvalidTokenError"]
    ELSE IF token.key /= SECRET_KEY THEN [error |-> "InvalidTokenError"]
    ELSE IF "exp" \in DOMAIN token.claims /\ token.claims.exp <= now
    THEN [error |-> "ExpiredSignatureError"]
    ELSE [error |-> None, payload |-> token.claims]

\* `except jwt.JWTError:` names an attribute of the installed jwt module
\* when an exception other than ExpiredSignatureError reaches it.  A module
\* that defines the name as the base class of its decode errors gives the
\* clause's 401 for an invalid token and lets the HTTPException of a missing
\* subject through (401); PyJWT, whose jwt.encode / jwt.decode /
\* jwt.ExpiredSignatureError the code uses, defines no such name, the lookup
\* raises AttributeError and FastAPI answers 500.
JWTErrorClause == {401, 500}

\* security = HTTPBearer(): without an Authorization: Bearer header the
\* dependency raises "Not authenticated", 403 or 401 with the FastAPI
\* release.
HTTPBearerRefusal == {401, 403}

\* A request that needs a caller arrives with credential cred:
\* Depends(get_current_user) runs before the handler and before the body
\* is validated.
AuthCall(p, cred, r) ==
    /\ pc[p] \in {"idle", "done"}
    /\ req' = [req EXCEPT ![p] = [op |-> "authenticate", cred |-> cred, request |-> r]]
    /\ pc' = [pc EXCEPT ![p] = "auth"]
    /\ existing' = [existing EXCEPT ![p] = NoDoc]
    /\ idx' = [idx EXCEPT ![p] = 1]
    /\ results' = [results EXCEPT ![p] = <<>>]
    /\ fetched' = [fetched EXCEPT ![p] = <<>>]
    /\ resp' = [resp EXCEPT ![p] = NoResp]
    /\ UNCHANGED <<attendance, students, clock, nextAtt, nextStu, calls,
                   users, classes, nextUsr, nextCls, plan>>

\* get_current_user raises: the request ends with that status.
Refuse(p, st) ==
    /\ calls' = calls + 1
    /\ Respond(p, [status |-> st])
    /\ UNCHANGED <<attendance, students, clock, nextAtt, nextStu,
                   users, classes, nextUsr, nextCls, plan,
                   req, existing, idx, results, fetched>>

(* -------------------------- mark_attendance -------------------------- *)

\* POST /attendance with body inp, sent by the authenticated user.
CallMark(p, inp, user) ==
    LET r == [op |-> "mark", input |-> inp, user |-> user]
    IN IF ValidAttendanceCreate(inp)
       THEN Begin(p, [r EXCEPT !.input = AttendanceCreate(inp)], "mark_find")
       ELSE Reject(p, r)

\* mark_attendance answering a duplicate with 400, as create_student does.
MarkFind_rejectsDuplicate(p) ==
    /\ pc[p] = "mark_find"
    /\ LET inp == req[p].input
           doc == find_one_triple(attendance, inp.student_id, inp.class_id, inp.date)
       IN /\ existing' = [existing EXCEPT ![p] = doc]
          /\ IF Found(doc)
             THEN Respond(p, [status |-> 400])
             ELSE /\ pc' = [pc EXCEPT ![p] = "mark_insert"]
                  /\ UNCHANGED resp
    /\ UNCHANGED <<attendance, students, clock, nextAtt, nextStu, calls,
                   users, classes, nextUsr, nextCls, plan,
                   req, idx, results, fetched>>

\* mark_attendance without the lookup: every mark is inserted.
MarkFind_alwaysInserts(p) ==
    /\ pc[p] = "mark_find"
    /\ existing' = [existing EXCEPT ![p] = NoDoc]
    /\ pc' = [pc EXCEPT ![p] = "mark_insert"]
    /\ UNCHANGED <<attendance, students, clock, nextAtt, nextStu, calls,
                   users, classes, nextUsr, nextCls, plan,
                   req, idx, results, fetched, resp>>

\* mark_attendance scoped as update_class is: 404 when the class is not
\* stored, 403 for a teacher who does not own it.
MarkFind_ownerOrAdmin(p) ==
    /\ pc[p] = "mark_find"
    /\ LET inp == req[p].input
           doc == find_one_triple(attendance, inp.student_id, inp.class_id, inp.date)
           cls == find_one_id(classes, inp.class_id)
       IN /\ existing' = [existing EXCEPT ![p] = doc]
          /\ IF ~Found(cls) THEN Respond(p, [status |-> 404])
             ELSE IF req[p].user.role /= "admin" /\ cls.teacher_id /= req[p].user.id
             THEN Respond(p, [status |-> 403])
             ELSE /\ pc' = [pc EXCEPT ![p] =
                               IF Found(doc) THEN "mark_update" ELSE "mark_insert"]
                  /\ UNCHANGED resp
    /\ UNCHANGED <<attendance, students, clock, nextAtt, nextStu, calls,
                   users, classes, nextUsr, nextCls, plan,
                   req, idx, results, fetched>>

\* existing = await db.attendance.find_one({student_id, class_id, date})
MarkFind(p) ==
    /\ pc[p] = "mark_find"
    /\ LET inp == req[p].input
           doc == find_one_triple(attendance, inp.student_id, inp.class_id, inp.date)
       IN /\ existing' = [existing EXCEPT ![p] = doc]
          /\ pc' = [pc EXCEPT ![p] = IF Found(doc) THEN "mark_update" ELSE "mark_insert"]
    /\ UNCHANGED <<attendance, students, clock, nextAtt, nextStu, calls,
                   users, classes, nextUsr, nextCls, plan,
                   req, idx, results, fetched, resp>>

\* await db.attendance.update_one({"id": existing['id']}, {"$set": update_data})
MarkUpdate(p) ==
    /\ pc[p] = "mark_update"
    /\ \E now \in Now(clock) :
          /\ clock' = now
          /\ attendance' = update_one_id(attendance, existing[p].id,
                                         UpdateData(req[p].input, req[p].user, now))
    /\ pc' = [pc EXCEPT ![p] = "mark_reread"]
    /\ UNCHANGED <<students, nextAtt, nextStu, calls,
                   users, classes, nextUsr, nextCls, plan,
                   req, existing, idx, results, fetched, resp>>

\* updated = await db.attendance.find_one({"id": existing['id']}); return it
MarkReread(p) ==
    /\ pc[p] = "mark_reread"
    /\ Respond(p, [status |-> 200, body |-> find_one_id(attendance, existing[p].id)])
    /\ UNCHANGED <<attendance, students, clock, nextAtt, nextStu, calls,
                   users, classes, nextUsr, nextCls, plan,
                   req, existing, idx, results, fetched>>

\* attendance = Attendance(...); await db.attendance.insert_one(doc); return it
MarkInsert(p) ==
    /\ pc[p] = "mark_insert"
    /\ \E created \in Now(clock) : \E updated \in Now(created) :
          LET doc == Attendance(req[p].input, req[p].user, AttUuid(nextAtt),
                                created, updated)
          IN /\ clock' = updated
             /\ attendance' = insert_one(attendance, doc)
             /\ Respond(p, [status |-> 200, body |-> doc])
    /\ nextAtt' = nextAtt + 1
    /\ UNCHANGED <<students, nextStu, calls,
                   users, classes, nextUsr, nextCls, plan,
                   req, existing, idx, results, fetched>>

(* ----------------------- mark_bulk_attendance ------------------------ *)

\* BulkAttendanceCreate: class_id and date are required str fields and
\* attendance_records is a list of dicts, whatever their keys.
ValidBulkAttendanceCreate(inp) ==
    /\ {"class_id", "date", "attendance_records"} \subseteq DOMAIN inp
    /\ inp.class_id /= None
    /\ inp.date /= None

\* record['student_id'] or record['status'] raises KeyError when the key is
\* missing; AttendanceCreate raises ValidationError when its value is None.
BulkRecordRaises(record) ==
    \/ "student_id" \notin DOMAIN record
    \/ "status" \notin DOMAIN record
    \/ record.student_id = None
    \/ record.status = None

\* The input built without remarks=record.get('remarks').
BulkAttendanceInput_noRemarks(inp, record) ==
    [student_id |-> record.student_id,
     class_id |-> inp.class_id,
     date |-> inp.date,
     status |-> record.status,
     remarks |-> None]

\* AttendanceCreate(student_id=record['student_id'], class_id=..., date=...,
\*                  status=record['status'], remarks=record.get('remarks'))
BulkAttendanceInput(inp, record) ==
    [student_id |-> record.student_id,
     class_id |-> inp.class_id,
     date |-> inp.date,
     status |-> record.status,
     remarks |-> IF "remarks" \in DOMAIN record THEN record.remarks ELSE None]

\* POST /attendance/bulk with body inp.
CallBulk(p, inp, user) ==
    LET r == [op |-> "bulk", input |-> inp, user |-> user]
    IN IF ValidBulkAttendanceCreate(inp)
       THEN Begin(p, r, "bulk_next")
       ELSE Reject(p, r)

\* A handler that validates every record before it writes the first one.
BulkNext_validatesAllFirst(p) ==
    /\ pc[p] = "bulk_next"
    /\ LET records == req[p].input.attendance_records
       IN IF \E i \in 1..Len(records) : BulkRecordRaises(records[i])
          THEN /\ Respond(p, [status |-> 500])
               /\ UNCHANGED existing
          ELSE IF idx[p] > Len(records)
          THEN /\ Respond(p, [status |-> 200, results |-> results[p]])
               /\ UNCHANGED existing
          ELSE LET inp == BulkAttendanceInput(req[p].input, records[idx[p]])
               IN /\ existing' = [existing EXCEPT ![p] =
                        find_one_triple(attendance, inp.student_id, inp.class_id, inp.date)]
                  /\ pc' = [pc EXCEPT ![p] = "bulk_write"]
                  /\ UNCHANGED resp
    /\ UNCHANGED <<attendance, students, clock, nextAtt, nextStu, calls,
                   users, classes, nextUsr, nextCls, plan,
                   req, idx, results, fetched>>

\* The head of the for loop: the next record, up to its find_one; after the
\* last record the handler returns the results.  An exception leaves the
\* handler and FastAPI answers 500.
BulkNext(p) ==
    /\ pc[p] = "bulk_next"
    /\ LET records == req[p].input.attendance_records
       IN IF idx[p] > Len(records)
          THEN /\ Respond(p, [status |-> 200, results |-> results[p]])
               /\ UNCHANGED existing
          ELSE IF BulkRecordRaises(records[idx[p]])
          THEN /\ Respond(p, [status |-> 500])
               /\ UNCHANGED existing
          ELSE LET inp == BulkAttendanceInput(req[p].input, records[idx[p]])
               IN /\ existing' = [existing EXCEPT ![p] =
                        find_one_triple(attendance, inp.student_id, inp.class_id, inp.date)]
                  /\ pc' = [pc EXCEPT ![p] = "bulk_write"]
                  /\ UNCHANGED resp
    /\ UNCHANGED <<attendance, students, clock, nextAtt, nextStu, calls,
                   users, classes, nextUsr, nextCls, plan,
                   req, idx, results, fetched>>

\* Both branches appending "created".
BulkAction_alwaysCreated(found) == "created"

\* The action a result entry reports: "updated" in the if branch, "created"
\* in the else branch.
BulkAction(found) == IF found THEN "updated" ELSE "created"

\* The body of the loop after find_one: update_one or insert_one, then
\* results.append({student_id, action}).
BulkWrite(p) ==
    /\ pc[p] = "bulk_write"
    /\ LET record == req[p].input.attendance_records[idx[p]]
           inp == BulkAttendanceInput(req[p].input, record)
       IN IF Found(existing[p])
          THEN /\ \E now \in Now(clock) :
                     /\ clock' = now
                     /\ attendance' = update_one_id(attendance, existing[p].id,
                                                    UpdateData(inp, req[p].user, now))
               /\ results' = [results EXCEPT ![p] =
                     Append(@, [student_id |-> record.student_id, action |-> BulkAction(TRUE)])]
               /\ UNCHANGED nextAtt
          ELSE /\ \E created \in Now(clock) : \E updated \in Now(created) :
                     /\ clock' = updated
                     /\ attendance' = insert_one(attendance,
                           Attendance(inp, req[p].user, AttUuid(nextAtt), created, updated))
               /\ results' = [results EXCEPT ![p] =
                     Append(@, [student_id |-> record.student_id, action |-> BulkAction(FALSE)])]
               /\ nextAtt' = nextAtt + 1
    /\ idx' = [idx EXCEPT ![p] = @ + 1]
    /\ pc' = [pc EXCEPT ![p] = "bulk_next"]
    /\ UNCHANGED <<students, nextStu, calls,
                   users, classes, nextUsr, nextCls, plan, req, existing, fetched, resp>>

(* -------------------------- get_attendance --------------------------- *)

\* get_attendance testing the range before the date.
MatchesQuery_rangeFirst(r, q) ==
    /\ Truthy(q.class_id) => r.class_id = q.class_id
    /\ Truthy(q.student_id) => r.student_id = q.student_id
    /\ IF Truthy(q.start_date) /\ Truthy(q.end_date)
       THEN StrLeq(q.start_date, r.date) /\ StrLeq(r.date, q.end_date)
       ELSE IF Truthy(q.date) THEN r.date = q.date
       ELSE TRUE

\* get_attendance with $gte and $lt: the end of the range left out.
MatchesQuery_openEnd(r, q) ==
    /\ Truthy(q.class_id) => r.class_id = q.class_id
    /\ Truthy(q.student_id) => r.student_id = q.student_id
    /\ IF Truthy(q.date) THEN r.date = q.date
       ELSE IF Truthy(q.start_date) /\ Truthy(q.end_date)
       THEN /\ StrLeq(q.start_date, r.date)
            /\ StrLeq(r.date, q.end_date)
            /\ r.date /= q.end_date
       ELSE TRUE

\* The MongoDB filter get_attendance builds from its parameters, as the
\* test a document has to pass.
MatchesQuery(r, q) ==
    /\ Truthy(q.class_id) => r.class_id = q.class_id
    /\ Truthy(q.student_id) => r.student_id = q.student_id
    /\ IF Truthy(q.date) THEN r.date = q.date
       ELSE IF Truthy(q.start_date) /\ Truthy(q.end_date)
       THEN StrLeq(q.start_date, r.date) /\ StrLeq(r.date, q.end_date)
       ELSE TRUE

\* GET /attendance?class_id=..&student_id=..&date=..&start_date=..&end_date=..
CallQuery(p, q, user) ==
    Begin(p, [op |-> "query", input |-> q, user |-> user], "query_find")

\* attendance_records = await db.attendance.find(query).to_list(10000)
QueryFind(p) ==
    /\ pc[p] = "query_find"
    /\ LET Test(r) == MatchesQuery(r, req[p].input)
       IN Respond(p, [status |-> 200,
                      body |-> to_list(SelectSeq(attendance, Test), AttendanceListLimit)])
    /\ UNCHANGED <<attendance, students, clock, nextAtt, nextStu, calls,
                   users, classes, nextUsr, nextCls, plan,
                   req, existing, idx, results, fetched>>

(* ----------------------- get_attendance_report ----------------------- *)

\* The three query parameters are required.
ValidReportArgs(a) ==
    /\ {"class_id", "start_date", "end_date"} \subseteq DOMAIN a
    /\ \A k \in {"class_id", "start_date", "end_date"} : a[k] /= None

\* The percentage cut to two decimals instead of rounded.
Percentage_truncates(present, total) == (present * 10000) \div total

\* round(present_count / total_days * 100, 2) in hundredths: the multiple of
\* 0.01 nearest to the quotient.  Of two equally near ones the even one is
\* taken here, as round() does on an exact tie; a tie needs total_days to be
\* a multiple of 32.
Percentage(present, total) ==
    LET n == present * 10000
        q == n \div total
        r == n % total
    IN IF 2 * r > total THEN q + 1
       ELSE IF 2 * r < total THEN q
       ELSE IF q % 2 = 0 THEN q ELSE q + 1

\* total_days counted over the student's own records.
StudentStat_ownDays(student, records) ==
    LET mine == {i \in 1..Len(records) : records[i].student_id = student.id}
        total_days == Cardinality({records[i].date : i \in mine})
        count(s) == Cardinality({i \in mine : records[i].status = s})
    IN [student_id |-> student.id,
        student_name |-> student.name,
        roll_number |-> student.roll_number,
        total_days |-> total_days,
        present |-> count("present"),
        absent |-> count("absent"),
        late |-> count("late"),
        attendance_percentage |->
            IF total_days > 0 THEN Percentage(count("present"), total_days) ELSE 0]

\* The statistics of one student over the fetched attendance_records.
StudentStat(student, records) ==
    LET mine == {i \in 1..Len(records) : records[i].student_id = student.id}
        total_days == Cardinality({records[i].date : i \in 1..Len(records)})
        count(s) == Cardinality({i \in mine : records[i].status = s})
    IN [student_id |-> student.id,
        student_name |-> student.name,
        roll_number |-> student.roll_number,
        total_days |-> total_days,
        present |-> count("present"),
        absent |-> count("absent"),
        late |-> count("late"),
        attendance_percentage |->
            IF total_days > 0 THEN Percentage(count("present"), total_days) ELSE 0]

\* GET /attendance/report?class_id=..&start_date=..&end_date=..
CallReport(p, a, user) ==
    LET r == [op |-> "report", input |-> a, user |-> user]
    IN IF ValidReportArgs(a) THEN Begin(p, r, "report_students") ELSE Reject(p, r)

\* The students fetched with an empty filter: every class's students.
ReportStudents_allStudents(p) ==
    /\ pc[p] = "report_students"
    /\ fetched' = [fetched EXCEPT ![p] = to_list(students, StudentListLimit)]
    /\ pc' = [pc EXCEPT ![p] = "report_attendance"]
    /\ UNCHANGED <<attendance, students, clock, nextAtt, nextStu, calls,
                   users, classes, nextUsr, nextCls, plan,
                   req, existing, idx, results, resp>>

\* students = await db.students.find({"class_id": class_id}).to_list(1000)
ReportStudents(p) ==
    /\ pc[p] = "report_students"
    /\ LET Test(s) == s.class_id = req[p].input.class_id
       IN fetched' = [fetched EXCEPT ![p] =
                         to_list(SelectSeq(students, Test), StudentListLimit)]
    /\ pc' = [pc EXCEPT ![p] = "report_attendance"]
    /\ UNCHANGED <<attendance, students, clock, nextAtt, nextStu, calls,
                   users, classes, nextUsr, nextCls, plan,
                   req, existing, idx, results, resp>>

\* attendance_records = await db.attendance.find({class_id, date: {$gte,
\* $lte}}).to_list(10000), then one report entry per fetched student.
ReportAttendance(p) ==
    /\ pc[p] = "report_attendance"
    /\ LET a == req[p].input
           Test(r) == /\ r.class_id = a.class_id
                      /\ StrLeq(a.start_date, r.date)
                      /\ StrLeq(r.date, a.end_date)
           records == to_list(SelectSeq(attendance, Test), AttendanceListLimit)
       IN Respond(p, [status |-> 200,
                      class_id |-> a.class_id,
                      start_date |-> a.start_date,
                      end_date |-> a.end_date,
                      report |-> [i \in 1..Len(fetched[p]) |->
                                     StudentStat(fetched[p][i], records)]])
    /\ UNCHANGED <<attendance, students, clock, nextAtt, nextStu, calls,
                   users, classes, nextUsr, nextCls, plan,
                   req, existing, idx, results, fetched>>

(* -------------------------- create_student --------------------------- *)

\* StudentCreate: name, roll_number and class_id are required str fields.
ValidStudentCreate(inp) ==
    /\ {"name", "roll_number", "class_id"} \subseteq DOMAIN inp
    /\ \A k \in {"name", "roll_number", "class_id"} : inp[k] /= None

\* Student(**student_input.model_dump()).model_dump()
Student(inp, id, created) ==
    [id |-> id,
     name |-> inp.name,
     roll_number |-> inp.roll_number,
     class_id |-> inp.class_id,
     email |-> IF "email" \in DOMAIN inp THEN inp.email ELSE None,
     phone |-> IF "phone" \in DOMAIN inp THEN inp.phone ELSE None,
     created_at |-> created]

\* db.students.find_one({"roll_number": .., "class_id": ..})
find_one_roll(coll, roll, c) ==
    LET hits == {i \in 1..Len(coll) : coll[i].roll_number = roll /\ coll[i].class_id = c}
    IN IF hits = {} THEN NoDoc ELSE coll[Min(hits)]

\* POST /students with body inp.
CallCreateStudent(p, inp, user) ==
    LET r == [op |-> "create_student", input |-> inp, user |-> user]
    IN IF ValidStudentCreate(inp) THEN Begin(p, r, "student_find") ELSE Reject(p, r)

\* existing = await db.students.find_one({roll_number, class_id}); 400 if found
StudentFind(p) ==
    /\ pc[p] = "student_find"
    /\ LET doc == find_one_roll(students, req[p].input.roll_number, req[p].input.class_id)
       IN /\ existing' = [existing EXCEPT ![p] = doc]
          /\ IF Found(doc)
             THEN Respond(p, [status |-> 400])
             ELSE /\ pc' = [pc EXCEPT ![p] = "student_insert"]
                  /\ UNCHANGED resp
    /\ UNCHANGED <<attendance, students, clock, nextAtt, nextStu, calls,
                   users, classes, nextUsr, nextCls, plan,
                   req, idx, results, fetched>>

\* student = Student(...); await db.students.insert_one(doc); return student
StudentInsert(p) ==
    /\ pc[p] = "student_insert"
    /\ \E created \in Now(clock) :
          LET doc == Student(req[p].input, StuUuid(nextStu), created)
          IN /\ clock' = created
             /\ students' = insert_one(students, doc)
             /\ Respond(p, [status |-> 200, body |-> doc])
    /\ nextStu' = nextStu + 1
    /\ UNCHANGED <<attendance, nextAtt, calls,
                   users, classes, nextUsr, nextCls, plan,
                   req, existing, idx, results, fetched>>

(* ----------------------- other student routes ------------------------ *)

\* student_input.model_dump(): email and phone default to None.
StudentCreate(inp) ==
    [name |-> inp.name,
     roll_number |-> inp.roll_number,
     class_id |-> inp.class_id,
     email |-> IF "email" \in DOMAIN inp THEN inp.email ELSE None,
     phone |-> IF "phone" \in DOMAIN inp THEN inp.phone ELSE None]

\* GET /students?class_id=..
CallGetStudents(p, c, user) ==
    Begin(p, [op |-> "get_students", input |-> [class_id |-> c], user |-> user],
          "students_find")

\* query = {"class_id": class_id} if class_id else {}; to_list(1000)
StudentsFind(p) ==
    /\ pc[p] = "students_find"
    /\ LET c == req[p].input.class_id
           Test(st) == Truthy(c) => st.class_id = c
       IN Respond(p, [status |-> 200,
                      body |-> to_list(SelectSeq(students, Test), StudentListLimit)])
    /\ UNCHANGED <<attendance, students, clock, nextAtt, nextStu, calls,
                   users, classes, nextUsr, nextCls, plan,
                   req, existing, idx, results, fetched>>

\* GET /students/{student_id}
CallGetStudent(p, id, user) ==
    Begin(p, [op |-> "get_student", input |-> [student_id |-> id], user |-> user],
          "student_get")

\* student = await db.students.find_one({"id": student_id}); 404 or the student
StudentGet(p) ==
    /\ pc[p] = "student_get"
    /\ LET doc == find_one_id(students, req[p].input.student_id)
       IN IF Found(doc)
          THEN Respond(p, [status |-> 200, body |-> doc])
          ELSE Respond(p, [status |-> 404])
    /\ UNCHANGED <<attendance, students, clock, nextAtt, nextStu, calls,
                   users, classes, nextUsr, nextCls, plan,
                   req, existing, idx, results, fetched>>

\* PUT /students/{student_id} with body inp.
CallUpdateStudent(p, id, inp, user) ==
    LET r == [op |-> "update_student", input |-> [student_id |-> id, body |-> inp],
              user |-> user]
    IN IF ValidStudentCreate(inp)
       THEN Begin(p, [r EXCEPT !.input.body = StudentCreate(inp)], "student_update_find")
       ELSE Reject(p, r)

\* existing = await db.students.find_one({"id": student_id}); 404
StudentUpdateFind(p) ==
    /\ pc[p] = "student_update_find"
    /\ LET doc == find_one_id(students, req[p].input.student_id)
       IN /\ existing' = [existing EXCEPT ![p] = doc]
          /\ IF ~Found(doc) THEN Respond(p, [status |-> 404])
             ELSE /\ pc' = [pc EXCEPT ![p] = "student_update_write"]
                  /\ UNCHANGED resp
    /\ UNCHANGED <<attendance, students, clock, nextAtt, nextStu, calls,
                   users, classes, nextUsr, nextCls, plan,
                   req, idx, results, fetched>>

\* await db.students.update_one({"id": student_id}, {"$set": update_data})
StudentUpdateWrite(p) ==
    /\ pc[p] = "student_update_write"
    /\ students' = update_one_id(students, req[p].input.student_id, req[p].input.body)
    /\ pc' = [pc EXCEPT ![p] = "student_update_reread"]
    /\ UNCHANGED <<attendance, clock, nextAtt, nextStu, calls,
                   users, classes, nextUsr, nextCls, plan,
                   req, existing, idx, results, fetched, resp>>

\* updated = await db.students.find_one({"id": student_id}); return it.  When
\* the student is gone updated is None and updated['created_at'] raises: 500.
StudentUpdateReread(p) ==
    /\ pc[p] = "student_update_reread"
    /\ LET doc == find_one_id(students, req[p].input.student_id)
       IN IF Found(doc)
          THEN Respond(p, [status |-> 200, body |-> doc])
          ELSE Respond(p, [status |-> 500])
    /\ UNCHANGED <<attendance, students, clock, nextAtt, nextStu, calls,
                   users, classes, nextUsr, nextCls, plan,
                   req, existing, idx, results, fetched>>

\* DELETE /students/{student_id}
CallDeleteStudent(p, id, user) ==
    Begin(p, [op |-> "delete_student", input |-> [student_id |-> id], user |-> user],
          "student_delete")

\* delete_student that also deletes the attendance records of the student.
StudentDelete_cascades(p) ==
    /\ pc[p] = "student_delete"
    /\ LET result == delete_one_id(students, req[p].input.student_id)
           Kept(r) == r.student_id /= req[p].input.student_id
       IN /\ students' = result.coll
          /\ attendance' = SelectSeq(attendance, Kept)
          /\ IF result.deleted_count = 0
             THEN Respond(p, [status |-> 404])
             ELSE Respond(p, [status |-> 200,
                              message |-> "Student deleted successfully"])
    /\ UNCHANGED <<clock, nextAtt, nextStu, calls,
                   users, classes, nextUsr, nextCls, plan,
                   req, existing, idx, results, fetched>>

\* result = await db.students.delete_one({"id": student_id}); 404 when
\* result.deleted_count == 0, else the message.
StudentDelete(p) ==
    /\ pc[p] = "student_delete"
    /\ LET result == delete_one_id(students, req[p].input.student_id)
       IN /\ students' = result.coll
          /\ IF result.deleted_count = 0
             THEN Respond(p, [status |-> 404])
             ELSE Respond(p, [status |-> 200,
                              message |-> "Student deleted successfully"])
    /\ UNCHANGED <<attendance, clock, nextAtt, nextStu, calls,
                   users, classes, nextUsr, nextCls, plan,
                   req, existing, idx, results, fetched>>

(* ------------------------------ classes ------------------------------ *)

\* ClassCreate: name and section are required str fields.
ValidClassCreate(inp) ==
    /\ {"name", "section"} \subseteq DOMAIN inp
    /\ \A k \in {"name", "section"} : inp[k] /= None

\* A ClassCreate that keeps the keys it does not declare (extra="allow").
ClassCreate_allowsExtra(inp) ==
    [k \in DOMAIN inp \cup {"subject"} |-> IF k \in DOMAIN inp THEN inp[k] ELSE None]

\* class_input.model_dump(): subject defaults to None, and a key the model
\* does not declare is dropped.
ClassCreate(inp) ==
    [name |-> inp.name,
     section |-> inp.section,
     subject |-> IF "subject" \in DOMAIN inp THEN inp.subject ELSE None]

\* Class(**class_dict).model_dump() with class_dict['teacher_id'] set to the
\* caller's id.
Class(inp, user, id, created) ==
    [id |-> id,
     name |-> inp.name,
     section |-> inp.section,
     subject |-> inp.subject,
     teacher_id |-> user.id,
     created_at |-> created]

\* POST /classes with body inp.
CallCreateClass(p, inp, user) ==
    LET r == [op |-> "create_class", input |-> inp, user |-> user]
    IN IF ValidClassCreate(inp)
       THEN Begin(p, [r EXCEPT !.input = ClassCreate(inp)], "class_insert")
       ELSE Reject(p, r)

\* class_obj = Class(...); await db.classes.insert_one(doc); return class_obj
ClassInsert(p) ==
    /\ pc[p] = "class_insert"
    /\ \E created \in Now(clock) :
          LET doc == Class(req[p].input, req[p].user, ClsUuid(nextCls), created)
          IN /\ clock' = created
             /\ classes' = insert_one(classes, doc)
             /\ Respond(p, [status |-> 200, body |-> doc])
    /\ nextCls' = nextCls + 1
    /\ UNCHANGED <<attendance, students, users, nextAtt, nextStu, nextUsr, calls,
                   plan, req, existing, idx, results, fetched>>

\* get_classes listing every class to every caller.
ClassesQuery_everyone(user, c) == TRUE

\* query = {} if current_user.role == "admin" else {"teacher_id": current_user.id},
\* as the test a class document has to pass.
ClassesQuery(user, c) ==
    IF user.role = "admin" THEN TRUE ELSE c.teacher_id = user.id

\* GET /classes
CallGetClasses(p, user) ==
    Begin(p, [op |-> "get_classes", user |-> user], "classes_find")

\* classes = await db.classes.find(query).to_list(1000); return classes
ClassesFind(p) ==
    /\ pc[p] = "classes_find"
    /\ LET Test(c) == ClassesQuery(req[p].user, c)
       IN Respond(p, [status |-> 200,
                      body |-> to_list(SelectSeq(classes, Test), ClassListLimit)])
    /\ UNCHANGED <<attendance, students, clock, nextAtt, nextStu, calls,
                   users, classes, nextUsr, nextCls, plan,
                   req, existing, idx, results, fetched>>

\* GET /classes/{class_id}
CallGetClass(p, id, user) ==
    Begin(p, [op |-> "get_class", input |-> [class_id |-> id], user |-> user],
          "class_get")

\* class_doc = await db.classes.find_one({"id": class_id}); 404 or the class
ClassGet(p) ==
    /\ pc[p] = "class_get"
    /\ LET doc == find_one_id(classes, req[p].input.class_id)
       IN IF Found(doc)
          THEN Respond(p, [status |-> 200, body |-> doc])
          ELSE Respond(p, [status |-> 404])
    /\ UNCHANGED <<attendance, students, clock, nextAtt, nextStu, calls,
                   users, classes, nextUsr, nextCls, plan,
                   req, existing, idx, results, fetched>>

\* The ownership test with no exemption for admins.
NotAuthorized_ownerOnly(user, doc) == doc.teacher_id /= user.id

\* current_user.role != "admin" and existing['teacher_id'] != current_user.id
NotAuthorized(user, doc) == user.role /= "admin" /\ doc.teacher_id /= user.id

\* PUT /classes/{class_id} with body inp.
CallUpdateClass(p, id, inp, user) ==
    LET r == [op |-> "update_class", input |-> [class_id |-> id, body |-> inp],
              user |-> user]
    IN IF ValidClassCreate(inp)
       THEN Begin(p, [r EXCEPT !.input.body = ClassCreate(inp)], "class_update_find")
       ELSE Reject(p, r)

\* existing = await db.classes.find_one({"id": class_id}); 404; 403
ClassUpdateFind(p) ==
    /\ pc[p] = "class_update_find"
    /\ LET doc == find_one_id(classes, req[p].input.class_id)
       IN /\ existing' = [existing EXCEPT ![p] = doc]
          /\ IF ~Found(doc) THEN Respond(p, [status |-> 404])
             ELSE IF NotAuthorized(req[p].user, doc) THEN Respond(p, [status |-> 403])
             ELSE /\ pc' = [pc EXCEPT ![p] = "class_update_write"]
                  /\ UNCHANGED resp
    /\ UNCHANGED <<attendance, students, clock, nextAtt, nextStu, calls,
                   users, classes, nextUsr, nextCls, plan,
                   req, idx, results, fetched>>

\* await db.classes.update_one({"id": class_id}, {"$set": update_data})
ClassUpdateWrite(p) ==
    /\ pc[p] = "class_update_write"
    /\ classes' = update_one_id(classes, req[p].input.class_id, req[p].input.body)
    /\ pc' = [pc EXCEPT ![p] = "class_update_reread"]
    /\ UNCHANGED <<attendance, students, clock, nextAtt, nextStu, calls,
                   users, nextUsr, nextCls, plan,
                   req, existing, idx, results, fetched, resp>>

\* updated = await db.classes.find_one({"id": class_id}); return it.  When
\* the class is gone updated is None and updated['created_at'] raises: 500.
ClassUpdateReread(p) ==
    /\ pc[p] = "class_update_reread"
    /\ LET doc == find_one_id(classes, req[p].input.class_id)
       IN IF Found(doc)
          THEN Respond(p, [status |-> 200, body |-> doc])
          ELSE Respond(p, [status |-> 500])
    /\ UNCHANGED <<attendance, students, clock, nextAtt, nextStu, calls,
                   users, classes, nextUsr, nextCls, plan,
                   req, existing, idx, results, fetched>>

\* DELETE /classes/{class_id}
CallDeleteClass(p, id, user) ==
    Begin(p, [op |-> "delete_class", input |-> [class_id |-> id], user |-> user],
          "class_delete_find")

\* delete_class answering a caller who is not an admin 403 before it looks
\* whether the class exists.
ClassDeleteFind_forbiddenFirst(p) ==
    /\ pc[p] = "class_delete_find"
    /\ LET doc == find_one_id(classes, req[p].input.class_id)
       IN /\ existing' = [existing EXCEPT ![p] = doc]
          /\ IF req[p].user.role /= "admin"
                /\ (~Found(doc) \/ doc.teacher_id /= req[p].user.id)
             THEN Respond(p, [status |-> 403])
             ELSE IF ~Found(doc) THEN Respond(p, [status |-> 404])
             ELSE /\ pc' = [pc EXCEPT ![p] = "class_delete_write"]
                  /\ UNCHANGED resp
    /\ UNCHANGED <<attendance, students, clock, nextAtt, nextStu, calls,
                   users, classes, nextUsr, nextCls, plan,
                   req, idx, results, fetched>>

\* existing = await db.classes.find_one({"id": class_id}); 404; 403
ClassDeleteFind(p) ==
    /\ pc[p] = "class_delete_find"
    /\ LET doc == find_one_id(classes, req[p].input.class_id)
       IN /\ existing' = [existing EXCEPT ![p] = doc]
          /\ IF ~Found(doc) THEN Respond(p, [status |-> 404])
             ELSE IF NotAuthorized(req[p].user, doc) THEN Respond(p, [status |-> 403])
             ELSE /\ pc' = [pc EXCEPT ![p] = "class_delete_write"]
                  /\ UNCHANGED resp
    /\ UNCHANGED <<attendance, students, clock, nextAtt, nextStu, calls,
                   users, classes, nextUsr, nextCls, plan,
                   req, idx, results, fetched>>

\* result = await db.classes.delete_one({"id": class_id}); 404 when
\* result.deleted_count == 0, else the message.
ClassDeleteWrite(p) ==
    /\ pc[p] = "class_delete_write"
    /\ LET result == delete_one_id(classes, req[p].input.class_id)
       IN /\ classes' = result.coll
          /\ IF result.deleted_count = 0
             THEN Respond(p, [status |-> 404])
             ELSE Respond(p, [status |-> 200,
                              message |-> "Class deleted successfully"])
    /\ UNCHANGED <<attendance, students, clock, nextAtt, nextStu, calls,
                   users, nextUsr, nextCls, plan,
                   req, existing, idx, results, fetched>>

(* ------------------------ get_dashboard_stats ------------------------ *)

\* datetime.now(timezone.utc).strftime("%Y-%m-%d"): the instants of the
\* model are minutes of one day.
strftime(now) == "2024-01-05"

\* find({}).sort("created_at", -1): the orders of the documents in which
\* created_at never increases; documents of the same instant come in any
\* order.
SortedByCreatedAtDesc(coll) ==
    LET n == Len(coll)
        perms == {f \in [1..n -> 1..n] : \A i, j \in 1..n : f[i] = f[j] => i = j}
    IN {[i \in 1..n |-> coll[f[i]]] :
            f \in {g \in perms : \A i, j \in 1..n :
                      i < j => coll[g[i]].created_at >= coll[g[j]].created_at}}

\* GET /dashboard/stats
CallDashboard(p, user) ==
    Begin(p, [op |-> "dashboard", user |-> user], "dash_classes")

\* total_classes = await db.classes.count_documents(query)
DashClasses(p) ==
    /\ pc[p] = "dash_classes"
    /\ results' = [results EXCEPT ![p] =
          <<Cardinality({i \in 1..Len(classes) : ClassesQuery(req[p].user, classes[i])})>>]
    /\ pc' = [pc EXCEPT ![p] = "dash_students"]
    /\ UNCHANGED <<attendance, students, clock, nextAtt, nextStu, calls,
                   users, classes, nextUsr, nextCls, plan,
                   req, existing, idx, fetched, resp>>

\* total_students = await db.students.count_documents({})
DashStudents(p) ==
    /\ pc[p] = "dash_students"
    /\ results' = [results EXCEPT ![p] = Append(@, Len(students))]
    /\ pc' = [pc EXCEPT ![p] = "dash_today"]
    /\ UNCHANGED <<attendance, students, clock, nextAtt, nextStu, calls,
                   users, classes, nextUsr, nextCls, plan,
                   req, existing, idx, fetched, resp>>

\* today_attendance = await db.attendance.count_documents({"date": today})
DashToday(p) ==
    /\ pc[p] = "dash_today"
    /\ \E now \in Now(clock) :
          /\ clock' = now
          /\ results' = [results EXCEPT ![p] =
                Append(@, Cardinality({i \in 1..Len(attendance) :
                                          attendance[i].date = strftime(now)}))]
    /\ pc' = [pc EXCEPT ![p] = "dash_recent"]
    /\ UNCHANGED <<attendance, students, nextAtt, nextStu, calls,
                   users, classes, nextUsr, nextCls, plan,
                   req, existing, idx, fetched, resp>>

\* recent_attendance = await db.attendance.find({}).sort("created_at", -1)
\*                           .limit(10).to_list(10); return the four values
DashRecent(p) ==
    /\ pc[p] = "dash_recent"
    /\ \E sorted \in SortedByCreatedAtDesc(attendance) :
          Respond(p, [status |-> 200,
                      total_classes |-> results[p][1],
                      total_students |-> results[p][2],
                      today_attendance |-> results[p][3],
                      recent_attendance |->
                          to_list(to_list(sorted, RecentLimit), RecentLimit)])
    /\ UNCHANGED <<attendance, students, clock, nextAtt, nextStu, calls,
                   users, classes, nextUsr, nextCls, plan,
                   req, existing, idx, results, fetched>>

(* -------------------------- get_current_user ------------------------- *)

\* GET /auth/me
CallGetMe(p, user) == Begin(p, [op |-> "get_me", user |-> user], "me")

\* return current_user
Me(p) ==
    /\ pc[p] = "me"
    /\ Respond(p, [status |-> 200, body |-> req[p].user])
    /\ UNCHANGED <<attendance, students, clock, nextAtt, nextStu, calls,
                   users, classes, nextUsr, nextCls, plan,
                   req, existing, idx, results, fetched>>

\* The routes declared with current_user: User = Depends(get_current_user).
Protected ==
    {"get_me", "create_student", "get_students", "get_student", "update_student",
     "delete_student", "create_class", "get_classes", "get_class", "update_class",
     "delete_class", "mark", "bulk", "query", "report", "dashboard"}

\* The handler of request r is entered with the resolved caller.
Dispatch(p, r, user) ==
    CASE r.op = "get_me" -> CallGetMe(p, user)
      [] r.op = "create_student" -> CallCreateStudent(p, r.input, user)
      [] r.op = "get_students" -> CallGetStudents(p, r.class_id, user)
      [] r.op = "get_student" -> CallGetStudent(p, r.id, user)
      [] r.op = "update_student" -> CallUpdateStudent(p, r.id, r.input, user)
      [] r.op = "delete_student" -> CallDeleteStudent(p, r.id, user)
      [] r.op = "create_class" -> CallCreateClass(p, r.input, user)
      [] r.op = "get_classes" -> CallGetClasses(p, user)
      [] r.op = "get_class" -> CallGetClass(p, r.id, user)
      [] r.op = "update_class" -> CallUpdateClass(p, r.id, r.input, user)
      [] r.op = "delete_class" -> CallDeleteClass(p, r.id, user)
      [] r.op = "mark" -> CallMark(p, r.input, user)
      [] r.op = "bulk" -> CallBulk(p, r.input, user)
      [] r.op = "query" -> CallQuery(p, r.input, user)
      [] r.op = "report" -> CallReport(p, r.input, user)
      [] r.op = "dashboard" -> CallDashboard(p, user)

\* get_current_user: the token is decoded, user_id = payload.get("sub"),
\* user = await db.users.find_one({"id": user_id}); 401 when there is none,
\* else the handler runs with User(**user).
GetCurrentUser(p) ==
    /\ pc[p] = "auth"
    /\ LET cred == req[p].cred
       IN IF cred.kind = "absent"
          THEN \E st \in HTTPBearerRefusal : Refuse(p, st)
          ELSE LET decoded == jwt_decode(cred, clock)
                  IN IF decoded.error = "ExpiredSignatureError" THEN Refuse(p, 401)
               ELSE IF decoded.error = "InvalidTokenError"
               THEN \E st \in JWTErrorClause : Refuse(p, st)
               ELSE IF "sub" \notin DOMAIN decoded.payload
               THEN \E st \in JWTErrorClause : Refuse(p, st)
               ELSE LET user == find_one_id(users, decoded.payload.sub)
                    IN IF ~Found(user) THEN Refuse(p, 401)
                       ELSE Dispatch(p, req[p].request,
                                     User(user, user.id, user.created_at))

(* ------------------------------ inputs ------------------------------- *)

\* Authenticated callers: what get_current_user resolved the token to.
Teacher == [id |-> "u1", role |-> "teacher"]

Admin == [id |-> "u2", role |-> "admin"]

Users == {Teacher, Admin}

\* A second teacher.
Teacher2 == [id |-> "u3", role |-> "teacher"]

Dates == {"2024-01-05", "2024-01-10", "2024-02-01"}

\* A request body for POST /attendance.
MarkBody(s, c, d, st, rem) ==
    [student_id |-> s, class_id |-> c, date |-> d, status |-> st, remarks |-> rem]

\* A record of a bulk request, with and without the optional remarks key.
Rec(s, st) == [student_id |-> s, status |-> st]

RecR(s, st, rem) == [student_id |-> s, status |-> st, remarks |-> rem]

BulkBody(c, d, records) == [class_id |-> c, date |-> d, attendance_records |-> records]

(* --------------------- concurrent requests: Spec --------------------- *)

\* Requests on one or two triples of one class and day: <<body, caller>>.
ConcMarkRequests ==
    {<<MarkBody("s1", "c1", "2024-01-05", "present", None), Teacher>>,
     <<MarkBody("s1", "c1", "2024-01-05", "absent", "sick"), Admin>>,
     <<MarkBody("s2", "c1", "2024-01-05", "late", None), Teacher>>}

ConcBulkRequests ==
    {<<BulkBody("c1", "2024-01-05", <<Rec("s1", "late")>>), Admin>>,
     <<BulkBody("c1", "2024-01-05",
                <<Rec("s2", "present"), RecR("s1", "absent", "note")>>), Teacher>>}

ConcCallMark(p) ==
    calls < MaxConcCalls /\ \E r \in ConcMarkRequests : CallMark(p, r[1], r[2])

ConcCallBulk(p) ==
    calls < MaxConcCalls /\ \E r \in ConcBulkRequests : CallBulk(p, r[1], r[2])

Next ==
    \E p \in Procs :
        \/ ConcCallMark(p)
        \/ ConcCallBulk(p)
        \/ MarkFind(p)
        \/ MarkUpdate(p)
        \/ MarkReread(p)
        \/ MarkInsert(p)
        \/ BulkNext(p)
        \/ BulkWrite(p)

Spec == Init /\ [][Next]_vars

(* -------------------- sequential requests: SeqSpec ------------------- *)

\* One client, each request run to completion before the next is sent.
SeqMarkBodies ==
    {MarkBody(s, "c1", "2024-01-05", st, rem) :
        s \in {"s1", "s2"}, st \in {"present", "absent"}, rem \in {None, "sick"}}
    \cup {[student_id |-> "s1", class_id |-> "c1", date |-> "2024-01-05"]}

SeqBulkBodies ==
    {BulkBody("c1", "2024-01-05", records) :
        records \in {<<>>,
                     <<Rec("s1", "present")>>,
                     <<Rec("s1", "present"), RecR("s1", "late", "bus")>>,
                     <<Rec("s2", "absent"), RecR("s1", "late", "bus")>>,
                     <<Rec("s1", "late"), [status |-> "present"]>>,
                     <<Rec("s2", "present"), [student_id |-> "s1"], Rec("s1", "absent")>>}}
    \cup {[class_id |-> "c1", attendance_records |-> <<>>]}

SeqCallMark ==
    calls < MaxSeqCalls /\ \E inp \in SeqMarkBodies, u \in Users : CallMark(Main, inp, u)

SeqCallBulk ==
    calls < MaxSeqCalls /\ \E inp \in SeqBulkBodies, u \in Users : CallBulk(Main, inp, u)

NextSeq ==
    \/ SeqCallMark
    \/ SeqCallBulk
    \/ MarkFind(Main)
    \/ MarkUpdate(Main)
    \/ MarkReread(Main)
    \/ MarkInsert(Main)
    \/ BulkNext(Main)
    \/ BulkWrite(Main)

SeqSpec == Init /\ [][NextSeq]_vars

(* ------------------------ queries: QuerySpec ------------------------- *)

\* One client marks attendance of two students in two classes on three
\* days and queries it; a blank parameter (?date=) arrives as "".
QueryMarkBodies ==
    {MarkBody("s1", "c1", "2024-01-05", "present", None),
     MarkBody("s1", "c1", "2024-01-10", "present", None),
     MarkBody("s1", "c1", "2024-02-01", "present", None),
     MarkBody("s2", "c1", "2024-01-05", "present", None),
     MarkBody("s1", "c2", "2024-01-10", "present", None),
     MarkBody("s2", "c2", "2024-02-01", "present", None)}

\* <<date, start_date, end_date>>: a date alone, inside and outside a
\* range, a blank date, ranges of one and two days, an empty range, and a
\* range with one end missing.
QueryDateParams ==
    {<<None, None, None>>,
     <<"2024-01-05", None, None>>,
     <<"2024-02-01", None, None>>,
     <<"2024-01-05", "2024-01-05", "2024-01-10">>,
     <<"2024-02-01", "2024-01-05", "2024-01-10">>,
     <<"", "2024-01-05", "2024-01-10">>,
     <<None, "2024-01-05", "2024-01-10">>,
     <<None, "2024-01-10", "2024-02-01">>,
     <<None, "2024-01-10", "2024-01-10">>,
     <<None, "2024-01-10", "2024-01-05">>,
     <<None, "2024-01-05", None>>,
     <<None, None, "2024-01-10">>}

QueryParams ==
    {[class_id |-> c, student_id |-> s, date |-> d[1],
      start_date |-> d[2], end_date |-> d[3]] :
        c \in {None, "c1"}, s \in {None, "s1"}, d \in QueryDateParams}

\* The clock stands still in these behaviours: no timestamp enters a query
\* filter or a report.
SameInstant(A) == A /\ clock' = clock

QCallMark ==
    calls < MaxQueryCalls /\ \E inp \in QueryMarkBodies : CallMark(Main, inp, Teacher)

QCallQuery ==
    calls < MaxQueryCalls /\ \E q \in QueryParams, u \in Users : CallQuery(Main, q, u)

NextQuery ==
    \/ QCallMark
    \/ QCallQuery
    \/ MarkFind(Main)
    \/ SameInstant(MarkUpdate(Main))
    \/ MarkReread(Main)
    \/ SameInstant(MarkInsert(Main))
    \/ QueryFind(Main)

QuerySpec == Init /\ [][NextQuery]_vars

(* ------------------------ reports: ReportSpec ------------------------ *)

\* One client enrols students, marks attendance and asks for reports.
\* The enrolled students get the ids s1, s2, ... in the order of creation;
\* attendance may name a student id that is (still) not enrolled.
ReportStudentBodies ==
    {[name |-> "Ann", roll_number |-> "r1", class_id |-> "c1"],
     [name |-> "Bob", roll_number |-> "r2", class_id |-> "c1"],
     [name |-> "Cid", roll_number |-> "r1", class_id |-> "c2"]}

ReportMarkBodies ==
    {MarkBody("s1", "c1", "2024-01-05", "present", None),
     MarkBody("s1", "c1", "2024-01-10", "present", None),
     MarkBody("s1", "c1", "2024-01-10", "absent", None),
     MarkBody("s1", "c1", "2024-02-01", "late", None),
     MarkBody("s1", "c1", "2024-02-01", "excused", None),
     MarkBody("s2", "c1", "2024-01-05", "present", None),
     MarkBody("s2", "c1", "2024-02-01", "absent", None),
     MarkBody("s1", "c2", "2024-01-10", "present", None)}

ReportArgs ==
    {[class_id |-> "c1", start_date |-> "2024-01-05", end_date |-> "2024-02-01"],
     [class_id |-> "c1", start_date |-> "2024-01-05", end_date |-> "2024-01-10"],
     [class_id |-> "c1", start_date |-> "2024-02-01", end_date |-> "2024-01-05"],
     [class_id |-> "c2", start_date |-> "2024-01-05", end_date |-> "2024-02-01"],
     [class_id |-> "c1", start_date |-> "2024-01-05"]}

RCallCreateStudent ==
    calls < MaxReportCalls
    /\ \E inp \in ReportStudentBodies : CallCreateStudent(Main, inp, Teacher)

RCallMark ==
    calls < MaxReportCalls /\ \E inp \in ReportMarkBodies : CallMark(Main, inp, Teacher)

RCallReport ==
    calls < MaxReportCalls /\ \E a \in ReportArgs : CallReport(Main, a, Admin)

NextReport ==
    \/ RCallCreateStudent
    \/ RCallMark
    \/ RCallReport
    \/ StudentFind(Main)
    \/ SameInstant(StudentInsert(Main))
    \/ MarkFind(Main)
    \/ SameInstant(MarkUpdate(Main))
    \/ MarkReread(Main)
    \/ SameInstant(MarkInsert(Main))
    \/ ReportStudents(Main)
    \/ ReportAttendance(Main)

ReportSpec == Init /\ [][NextReport]_vars

(* ------------------------- classes: ClassSpec ------------------------ *)

\* Two teachers and an admin create, list, read, change and delete
\* classes, one request at a time.  The created classes get the ids k1,
\* k2, ...; k9 is an id no class gets.  A body may carry keys ClassCreate
\* does not declare: an id, and the id u3 of Teacher2 as teacher_id.
ClassCallers == {Teacher, Teacher2, Admin}

NextClass ==
    \/ /\ calls < MaxClassCalls
       /\ \E inp \in {[name |-> "Math", section |-> "A"],
                      [name |-> "Art", section |-> "B", subject |-> "Paint",
                       teacher_id |-> "u3"],
                      [name |-> "Math"]},
             u \in ClassCallers :
             CallCreateClass(Main, inp, u)
    \/ /\ calls < MaxClassCalls
       /\ \E u \in ClassCallers : CallGetClasses(Main, u)
    \/ /\ calls < MaxClassCalls
       /\ \E id \in {"k1", "k2", "k9"} : CallGetClass(Main, id, Teacher2)
    \/ /\ calls < MaxClassCalls
       /\ \E id \in {"k1", "k2", "k9"},
             inp \in {[name |-> "Maths", section |-> "A", subject |-> "Algebra",
                       id |-> "k9", teacher_id |-> "u3"],
                      [name |-> "Maths"]},
             u \in ClassCallers :
             CallUpdateClass(Main, id, inp, u)
    \/ /\ calls < MaxClassCalls
       /\ \E id \in {"k1", "k2", "k9"}, u \in ClassCallers :
             CallDeleteClass(Main, id, u)
    \/ SameInstant(ClassInsert(Main))
    \/ ClassesFind(Main)
    \/ ClassGet(Main)
    \/ ClassUpdateFind(Main)
    \/ ClassUpdateWrite(Main)
    \/ ClassUpdateReread(Main)
    \/ ClassDeleteFind(Main)
    \/ ClassDeleteWrite(Main)

ClassSpec == Init /\ [][NextClass]_vars

(* ----------------------- credentials: AuthSpec ----------------------- *)

\* One client registers, logs in and calls every protected route with
\* good and bad credentials, one request at a time.  The registered users
\* get the ids u1, u2, ...; u7 is an id no user gets.
RegisterBodies ==
    {[email |-> "ann@x.org", password |-> "pw1", name |-> "Ann"],
     [email |-> "bob@x.org", password |-> "pw2", name |-> "Bob", role |-> "admin"],
     [email |-> "ann", password |-> "pw1", name |-> "Ann"]}

\* The token login issues for user id sub at instant 0.
TokenOf(sub) == create_access_token([sub |-> sub], 0)

\* No Authorization header, a string that is not a token, a token signed
\* with another key, an expired token, a token without "sub", the token of
\* an id that is not stored, and the tokens of u1 and u2.
Credentials ==
    {[kind |-> "absent"],
     [kind |-> "garbage"],
     [TokenOf("u1") EXCEPT !.key = "another-key"],
     [TokenOf("u1") EXCEPT !.claims.exp = 0],
     [kind |-> "jwt", key |-> SECRET_KEY,
      claims |-> [exp |-> ACCESS_TOKEN_EXPIRE_MINUTES]],
     TokenOf("u7"),
     TokenOf("u1"),
     TokenOf("u2")}

ProtectedRequests ==
    {[op |-> "get_me"],
     [op |-> "create_student",
      input |-> [name |-> "Ann", roll_number |-> "r1", class_id |-> "c1"]],
     [op |-> "create_student", input |-> [name |-> "Ann"]],
     [op |-> "get_students", class_id |-> "c1"],
     [op |-> "get_student", id |-> "s1"],
     [op |-> "update_student", id |-> "s1",
      input |-> [name |-> "Ann", roll_number |-> "r2", class_id |-> "c1"]],
     [op |-> "delete_student", id |-> "s1"],
     [op |-> "create_class", input |-> [name |-> "Math", section |-> "A"]],
     [op |-> "get_classes"],
     [op |-> "get_class", id |-> "k1"],
     [op |-> "update_class", id |-> "k1", input |-> [name |-> "Maths", section |-> "B"]],
     [op |-> "delete_class", id |-> "k1"],
     [op |-> "mark", input |-> MarkBody("s1", "c1", "2024-01-05", "present", None)],
     [op |-> "bulk", input |-> BulkBody("c1", "2024-01-05", <<Rec("s1", "late")>>)],
     [op |-> "query",
      input |-> [class_id |-> None, student_id |-> None, date |-> None,
                 start_date |-> None, end_date |-> None]],
     [op |-> "report",
      input |-> [class_id |-> "c1", start_date |-> "2024-01-05",
                 end_date |-> "2024-02-01"]],
     [op |-> "dashboard"]}

NextAuth ==
    \/ /\ calls < MaxAuthCalls
       /\ \E inp \in RegisterBodies : CallRegister(Main, inp)
    \/ /\ calls < MaxAuthCalls
       /\ \E inp \in {[email |-> "ann@x.org", password |-> "pw1"],
                      [email |-> "ann@x.org", password |-> "pw2"],
                      [email |-> "ann@x.org"]} :
             CallLogin(Main, inp)
    \/ /\ calls < MaxAuthCalls
       /\ \E cred \in Credentials, r \in ProtectedRequests : AuthCall(Main, cred, r)
    \/ GetCurrentUser(Main)
    \/ RegisterFind(Main)
    \/ SameInstant(RegisterInsert(Main))
    \/ SameInstant(LoginFind(Main))
    \/ Me(Main)
    \/ StudentFind(Main)
    \/ SameInstant(StudentInsert(Main))
    \/ StudentsFind(Main)
    \/ StudentGet(Main)
    \/ StudentUpdateFind(Main)
    \/ StudentUpdateWrite(Main)
    \/ StudentUpdateReread(Main)
    \/ StudentDelete(Main)
    \/ SameInstant(ClassInsert(Main))
    \/ ClassesFind(Main)
    \/ ClassGet(Main)
    \/ ClassUpdateFind(Main)
    \/ ClassUpdateWrite(Main)
    \/ ClassUpdateReread(Main)
    \/ ClassDeleteFind(Main)
    \/ ClassDeleteWrite(Main)
    \/ MarkFind(Main)
    \/ SameInstant(MarkUpdate(Main))
    \/ MarkReread(Main)
    \/ SameInstant(MarkInsert(Main))
    \/ BulkNext(Main)
    \/ SameInstant(BulkWrite(Main))
    \/ QueryFind(Main)
    \/ ReportStudents(Main)
    \/ ReportAttendance(Main)
    \/ DashClasses(Main)
    \/ DashStudents(Main)
    \/ SameInstant(DashToday(Main))
    \/ DashRecent(Main)

AuthSpec == Init /\ [][NextAuth]_vars

(* --------------------- the roster: DirectorySpec --------------------- *)

\* Users register and a teacher keeps the roster of two classes, one
\* request at a time.  "ann@X.org" is ann@x.org once validated; s9 is an
\* id no student gets.
DirStudentBodies ==
    ReportStudentBodies
    \cup {[name |-> "Dan", roll_number |-> "r1", class_id |-> "c1"],
          [name |-> "Eve", class_id |-> "c1"]}

NextDirectory ==
    \/ /\ calls < MaxDirCalls
       /\ \E inp \in RegisterBodies
                     \cup {[email |-> "ann@X.org", password |-> "pw3",
                            name |-> "Anna"]} :
             CallRegister(Main, inp)
    \/ /\ calls < MaxDirCalls
       /\ \E inp \in DirStudentBodies : CallCreateStudent(Main, inp, Teacher)
    \/ /\ calls < MaxDirCalls
       /\ \E c \in {None, "c1"} : CallGetStudents(Main, c, Teacher)
    \/ /\ calls < MaxDirCalls
       /\ \E id \in {"s1", "s2", "s9"} : CallGetStudent(Main, id, Teacher)
    \/ /\ calls < MaxDirCalls
       /\ \E id \in {"s1", "s2", "s9"}, inp \in DirStudentBodies :
             CallUpdateStudent(Main, id, inp, Teacher)
    \/ /\ calls < MaxDirCalls
       /\ \E id \in {"s1", "s2", "s9"} : CallDeleteStudent(Main, id, Teacher)
    \/ RegisterFind(Main)
    \/ SameInstant(RegisterInsert(Main))
    \/ StudentFind(Main)
    \/ SameInstant(StudentInsert(Main))
    \/ StudentsFind(Main)
    \/ StudentGet(Main)
    \/ StudentUpdateFind(Main)
    \/ StudentUpdateWrite(Main)
    \/ StudentUpdateReread(Main)
    \/ StudentDelete(Main)

DirectorySpec == Init /\ [][NextDirectory]_vars

(* ------------------ one batch, two ways: EquivSpec ------------------- *)

\* The state after construction for a client that is going to act on one
\* of the plans.
InitPlan(Plans) ==
    /\ plan \in Plans
    /\ attendance = <<>>
    /\ students = <<>>
    /\ classes = <<>>
    /\ users = <<>>
    /\ clock = 0
    /\ nextAtt = 1
    /\ nextStu = 1
    /\ nextCls = 1
    /\ nextUsr = 1
    /\ calls = 0
    /\ pc = [p \in Procs |-> "idle"]
    /\ req = [p \in Procs |-> NoReq]
    /\ existing = [p \in Procs |-> NoDoc]
    /\ idx = [p \in Procs |-> 1]
    /\ results = [p \in Procs |-> <<>>]
    /\ fetched = [p \in Procs |-> <<>>]
    /\ resp = [p \in Procs |-> NoResp]

\* A client has the attendance of one class and day to record: plan.entries
\* (up to MaxBatch of them) by plan.caller, after the marks of plan.seed
\* have been stored.  It sends the entries either as one bulk request or as
\* one mark request each.
EquivPlans ==
    [seed : {<<>>,
             <<<<MarkBody("s1", "c1", "2024-01-05", "late", "seed"), Admin>>>>,
             <<<<MarkBody("s2", "c1", "2024-01-05", "absent", None), Teacher>>,
               <<MarkBody("s1", "c1", "2024-01-10", "late", None), Teacher>>>>},
     entries : UNION {[1..n -> {Rec("s1", "present"), RecR("s1", "absent", "sick"),
                                RecR("s2", "late", "bus"), RecR("s2", "present", None)}] :
                         n \in 0..MaxBatch},
     caller : Users,
     mode : {"bulk", "marks"}]

NextEquiv ==
    \/ /\ calls < Len(plan.seed)
       /\ CallMark(Main, plan.seed[calls + 1][1], plan.seed[calls + 1][2])
    \/ /\ plan.mode = "bulk"
       /\ calls = Len(plan.seed)
       /\ CallBulk(Main, BulkBody("c1", "2024-01-05", plan.entries), plan.caller)
    \/ /\ plan.mode = "marks"
       /\ calls >= Len(plan.seed)
       /\ calls < Len(plan.seed) + Len(plan.entries)
       /\ LET e == plan.entries[calls - Len(plan.seed) + 1]
          IN CallMark(Main,
                      [student_id |-> e.student_id, class_id |-> "c1",
                       date |-> "2024-01-05", status |-> e.status,
                       remarks |-> IF "remarks" \in DOMAIN e THEN e.remarks ELSE None],
                      plan.caller)
    \/ MarkFind(Main)
    \/ MarkUpdate(Main)
    \/ MarkReread(Main)
    \/ MarkInsert(Main)
    \/ BulkNext(Main)
    \/ BulkWrite(Main)

EquivSpec == InitPlan(EquivPlans) /\ [][NextEquiv]_vars

(* ------------------ two triples at once: IndepSpec ------------------- *)

\* After the marks of plan.seed, two clients send one request each at the
\* same time: plan.first is about student s1 in class c1 on 2024-01-05,
\* plan.second about another student, another class or another day.
IndepPlans ==
    [seed : {<<>>,
             <<<<MarkBody("s1", "c1", "2024-01-05", "late", "seed"), Admin>>>>,
             <<<<MarkBody("s1", "c2", "2024-01-05", "late", None), Teacher>>>>,
             <<<<MarkBody("s1", "c1", "2024-01-05", "absent", None), Teacher>>,
               <<MarkBody("s2", "c1", "2024-01-05", "late", "seed"), Admin>>>>},
     first : {[op |-> "mark", user |-> Teacher,
               input |-> MarkBody("s1", "c1", "2024-01-05", "present", None)],
              [op |-> "mark", user |-> Admin,
               input |-> MarkBody("s1", "c1", "2024-01-05", "absent", "sick")],
              [op |-> "bulk", user |-> Teacher,
               input |-> BulkBody("c1", "2024-01-05", <<Rec("s1", "present")>>)]},
     second : {[op |-> "mark", user |-> Teacher2,
                input |-> MarkBody("s2", "c1", "2024-01-05", "present", "x")],
               [op |-> "mark", user |-> Admin,
                input |-> MarkBody("s1", "c2", "2024-01-05", "absent", None)],
               [op |-> "mark", user |-> Teacher2,
                input |-> MarkBody("s1", "c1", "2024-01-10", "late", None)],
               [op |-> "bulk", user |-> Admin,
                input |-> BulkBody("c1", "2024-01-05",
                                   <<Rec("s2", "late"), Rec("s3", "late")>>)]}]

\* Request r is sent and served by process p.
Send(p, r) ==
    IF r.op = "mark" THEN CallMark(p, r.input, r.user)
    ELSE CallBulk(p, r.input, r.user)

NextIndep ==
    \/ /\ calls < Len(plan.seed)
       /\ CallMark("p1", plan.seed[calls + 1][1], plan.seed[calls + 1][2])
    \/ /\ pc["p1"] \in {"idle", "done"}
       /\ \/ calls = Len(plan.seed)
          \/ calls = Len(plan.seed) + 1 /\ pc["p2"] /= "idle"
       /\ Send("p1", plan.first)
    \/ /\ pc["p2"] = "idle"
       /\ \/ calls = Len(plan.seed) /\ pc["p1"] \in {"idle", "done"}
          \/ calls = Len(plan.seed) + 1
       /\ Send("p2", plan.second)
    \/ \E p \in Procs :
          \/ MarkFind(p)
          \/ MarkUpdate(p)
          \/ MarkReread(p)
          \/ MarkInsert(p)
          \/ BulkNext(p)
          \/ BulkWrite(p)

IndepSpec == InitPlan(IndepPlans) /\ [][NextIndep]_vars

(* ------------- attendance of a changing roster: RosterSpec ------------ *)

\* A teacher creates class k1 and student s1, records attendance that
\* refers to them, and changes and deletes the class and the student, one
\* request at a time.
NextRoster ==
    \/ /\ calls < MaxRosterCalls
       /\ CallCreateClass(Main, [name |-> "Math", section |-> "A"], Teacher)
    \/ /\ calls < MaxRosterCalls
       /\ CallCreateStudent(Main, [name |-> "Ann", roll_number |-> "r1",
                                   class_id |-> "k1"], Teacher)
    \/ /\ calls < MaxRosterCalls
       /\ \E st \in {"present", "absent"} :
             CallMark(Main, MarkBody("s1", "k1", "2024-01-05", st, None), Teacher)
    \/ /\ calls < MaxRosterCalls
       /\ CallBulk(Main, BulkBody("k1", "2024-01-05",
                                  <<Rec("s1", "late"), Rec("s2", "present")>>), Teacher)
    \/ /\ calls < MaxRosterCalls
       /\ CallUpdateStudent(Main, "s1", [name |-> "Ann", roll_number |-> "r2",
                                         class_id |-> "k2"], Teacher)
    \/ /\ calls < MaxRosterCalls
       /\ CallUpdateClass(Main, "k1", [name |-> "Maths", section |-> "B"], Teacher)
    \/ /\ calls < MaxRosterCalls
       /\ CallDeleteStudent(Main, "s1", Teacher)
    \/ /\ calls < MaxRosterCalls
       /\ CallDeleteClass(Main, "k1", Teacher)
    \/ SameInstant(ClassInsert(Main))
    \/ StudentFind(Main)
    \/ SameInstant(StudentInsert(Main))
    \/ MarkFind(Main)
    \/ MarkUpdate(Main)
    \/ MarkReread(Main)
    \/ MarkInsert(Main)
    \/ BulkNext(Main)
    \/ BulkWrite(Main)
    \/ StudentUpdateFind(Main)
    \/ StudentUpdateWrite(Main)
    \/ StudentUpdateReread(Main)
    \/ ClassUpdateFind(Main)
    \/ ClassUpdateWrite(Main)
    \/ ClassUpdateReread(Main)
    \/ StudentDelete(Main)
    \/ ClassDeleteFind(Main)
    \/ ClassDeleteWrite(Main)

RosterSpec == Init /\ [][NextRoster]_vars

(* ------------- attendance by any caller: AnyCallerSpec --------------- *)

\* Teacher creates class k1; then Teacher, another teacher and an admin
\* record, list and report attendance for k1 and for a class k9 and a
\* student s9 that are not stored, one request at a time.
NextAnyCaller ==
    \/ /\ calls = 0
       /\ CallCreateClass(Main, [name |-> "Math", section |-> "A"], Teacher)
    \/ /\ calls < MaxAnyCallerCalls
       /\ \E u \in ClassCallers, c \in {"k1", "k9"}, st \in {"present", "late"} :
             CallMark(Main, MarkBody("s9", c, "2024-01-05", st, None), u)
    \/ /\ calls < MaxAnyCallerCalls
       /\ \E u \in ClassCallers, c \in {"k1", "k9"} :
             CallBulk(Main, BulkBody(c, "2024-01-05",
                                     <<Rec("s9", "absent"), Rec("s1", "late")>>), u)
    \/ /\ calls < MaxAnyCallerCalls
       /\ \E u \in ClassCallers, c \in {"k1", "k9"} :
             CallQuery(Main, [class_id |-> c, student_id |-> None, date |-> None,
                              start_date |-> None, end_date |-> None], u)
    \/ /\ calls < MaxAnyCallerCalls
       /\ \E u \in ClassCallers, c \in {"k1", "k9"} :
             CallReport(Main, [class_id |-> c, start_date |-> "2024-01-05",
                               end_date |-> "2024-01-10"], u)
    \/ SameInstant(ClassInsert(Main))
    \/ MarkFind(Main)
    \/ SameInstant(MarkUpdate(Main))
    \/ MarkReread(Main)
    \/ SameInstant(MarkInsert(Main))
    \/ BulkNext(Main)
    \/ SameInstant(BulkWrite(Main))
    \/ QueryFind(Main)
    \/ ReportStudents(Main)
    \/ ReportAttendance(Main)

AnyCallerSpec == Init /\ [][NextAnyCaller]_vars

(* ---------- reports of concurrent marks: RaceReportSpec -------------- *)

\* Student s1 of class c1 is created; then two clients mark attendance of
\* s1 and ask for the report of c1, their requests served concurrently.
NextRaceReport ==
    \/ /\ calls = 0
       /\ CallCreateStudent(Main, [name |-> "Ann", roll_number |-> "r1",
                                   class_id |-> "c1"], Teacher)
    \/ StudentFind(Main)
    \/ SameInstant(StudentInsert(Main))
    \/ \E p \in Procs :
          \/ /\ calls > 0
             /\ calls < MaxRaceReportCalls
             /\ pc[Main] \notin {"student_find", "student_insert"}
             /\ \E d \in {"2024-01-05", "2024-01-10"}, st \in {"present", "late"} :
                   CallMark(p, MarkBody("s1", "c1", d, st, None), Teacher)
          \/ /\ calls > 0
             /\ calls < MaxRaceReportCalls
             /\ pc[Main] \notin {"student_find", "student_insert"}
             /\ CallReport(p, [class_id |-> "c1", start_date |-> "2024-01-05",
                               end_date |-> "2024-01-10"], Admin)
          \/ MarkFind(p)
          \/ SameInstant(MarkUpdate(p))
          \/ MarkReread(p)
          \/ SameInstant(MarkInsert(p))
          \/ ReportStudents(p)
          \/ ReportAttendance(p)

RaceReportSpec == Init /\ [][NextRaceReport]_vars

(* ------------------------------ claims ------------------------------- *)

\* The positions of the attendance records of triple (s, c, d).
RecordsOf(s, c, d) ==
    {i \in 1..Len(attendance) :
        /\ attendance[i].student_id = s
        /\ attendance[i].class_id = c
        /\ attendance[i].date = d}

\* Every record of the list has a student_id and a status.
WellFormed(records) == \A i \in 1..Len(records) : ~BulkRecordRaises(records[i])

\* C1: in every reachable state, concurrent requests included, the
\* attendance collection holds at most one record per (student_id,
\* class_id, date) triple.  Two mark_attendance coroutines that both run
\* find_one before either runs insert_one violate it.
C1_AtMostOneRecordPerTriple ==
    \A i, j \in 1..Len(attendance) :
        (/\ attendance[i].student_id = attendance[j].student_id
         /\ attendance[i].class_id = attendance[j].class_id
         /\ attendance[i].date = attendance[j].date) => i = j

\* C2: when a valid mark_attendance request has completed, requests being
\* served one at a time, it was answered 200, exactly one record has its
\* triple, and that record's status, remarks and marked_by are the
\* request's.
C2_LastMarkWins ==
    (/\ pc[Main] = "done"
     /\ req[Main].op = "mark"
     /\ ValidAttendanceCreate(req[Main].input)) =>
        LET inp == req[Main].input
            hits == RecordsOf(inp.student_id, inp.class_id, inp.date)
        IN /\ resp[Main].status = 200
           /\ Cardinality(hits) = 1
           /\ \A i \in hits :
                 /\ attendance[i].status = inp.status
                 /\ attendance[i].remarks = inp.remarks
                 /\ attendance[i].marked_by = req[Main].user.id

\* C2 witness: a mark that overwrote another caller's record of the triple.
C2_Witness ==
    /\ pc[Main] = "done"
    /\ req[Main].op = "mark"
    /\ resp[Main].status = 200
    /\ Found(existing[Main])
    /\ existing[Main].status /= req[Main].input.status
    /\ existing[Main].remarks /= req[Main].input.remarks
    /\ existing[Main].marked_by /= req[Main].user.id

\* C3: no step of any mark_attendance or mark_bulk_attendance request,
\* whatever the interleaving, changes the id, the created_at or the triple
\* of a record that is already stored.
C3_IdAndCreatedAtPersist ==
    [][\A i \in 1..Len(attendance) :
          /\ i <= Len(attendance')
          /\ attendance'[i].id = attendance[i].id
          /\ attendance'[i].created_at = attendance[i].created_at
          /\ attendance'[i].student_id = attendance[i].student_id
          /\ attendance'[i].class_id = attendance[i].class_id
          /\ attendance'[i].date = attendance[i].date]_vars

\* C3 witness: a record updated at a later clock reading than its creation,
\* by a request that found it stored.
C3_Witness ==
    \E p \in Procs :
        /\ pc[p] = "done"
        /\ req[p].op = "mark"
        /\ Found(existing[p])
        /\ resp[p].status = 200
        /\ resp[p].body.id = existing[p].id
        /\ resp[p].body.created_at = 0
        /\ resp[p].body.updated_at > existing[p].updated_at

\* C4: a mark_attendance request whose triple already had a record is
\* answered 200 and the record it found carries the request's values; a
\* bulk record whose triple already had a record is reported "updated", the
\* record it found carries its values, and a bulk request of well-formed
\* records is answered 200.
C4_DuplicateIsUpsert ==
    /\ (/\ pc[Main] = "done"
        /\ req[Main].op = "mark"
        /\ Found(existing[Main])) =>
           LET inp == req[Main].input
               doc == find_one_id(attendance, existing[Main].id)
           IN /\ resp[Main].status = 200
              /\ doc.status = inp.status
              /\ doc.remarks = inp.remarks
              /\ doc.marked_by = req[Main].user.id
    /\ (/\ pc[Main] \in {"bulk_next", "done"}
        /\ req[Main].op = "bulk"
        /\ idx[Main] > 1
        /\ Found(existing[Main])) =>
           LET record == req[Main].input.attendance_records[idx[Main] - 1]
               doc == find_one_id(attendance, existing[Main].id)
           IN /\ results[Main][idx[Main] - 1].action = "updated"
              /\ doc.status = record.status
              /\ doc.marked_by = req[Main].user.id
    /\ (/\ pc[Main] = "done"
        /\ req[Main].op = "bulk"
        /\ ValidBulkAttendanceCreate(req[Main].input)
        /\ WellFormed(req[Main].input.attendance_records)) =>
           resp[Main].status = 200

\* C4 witness: a mark of a triple that had a record, answered 200.
C4_Witness ==
    /\ pc[Main] = "done"
    /\ req[Main].op = "mark"
    /\ Found(existing[Main])
    /\ resp[Main].status = 200
    /\ resp[Main].body.status /= existing[Main].status

\* C5 (state part): a completed bulk request of N well-formed records is
\* answered 200 with N results, the i-th carrying the i-th record's
\* student_id; N = 0 gives the empty list.
C5_ResultsFollowInput ==
    (/\ pc[Main] = "done"
     /\ req[Main].op = "bulk"
     /\ ValidBulkAttendanceCreate(req[Main].input)
     /\ WellFormed(req[Main].input.attendance_records)) =>
        LET records == req[Main].input.attendance_records
        IN /\ resp[Main].status = 200
           /\ Len(resp[Main].results) = Len(records)
           /\ \A i \in 1..Len(records) :
                 resp[Main].results[i].student_id = records[i].student_id

\* C5 (step part): the result appended for a record says "created" when the
\* store held no record of its triple at that moment and "updated"
\* otherwise; no step of a bulk request with an empty list changes the store.
C5_ActionTellsExistence ==
    /\ (/\ req[Main].op = "bulk"
        /\ Len(results'[Main]) = Len(results[Main]) + 1) =>
           LET i == Len(results'[Main])
               record == req[Main].input.attendance_records[i]
               had == RecordsOf(record.student_id, req[Main].input.class_id,
                                req[Main].input.date) /= {}
           IN results'[Main][i].action = (IF had THEN "updated" ELSE "created")
    /\ (/\ req'[Main].op = "bulk"
        /\ ValidBulkAttendanceCreate(req'[Main].input)
        /\ req'[Main].input.attendance_records = <<>>) =>
           attendance' = attendance

\* C5: markBulk returns one result per record, in input order, telling
\* "created" from "updated" by what the store held when the record was
\* processed; the empty list gives the empty result and no change.
C5_BulkResults == []C5_ResultsFollowInput /\ [][C5_ActionTellsExistence]_vars

\* C5 witness: a student repeated in one batch, created then updated.
C5_Witness ==
    /\ pc[Main] = "done"
    /\ req[Main].op = "bulk"
    /\ resp[Main].status = 200
    /\ Len(resp[Main].results) = 2
    /\ resp[Main].results[1] = [student_id |-> "s1", action |-> "created"]
    /\ resp[Main].results[2] = [student_id |-> "s1", action |-> "updated"]

\* The first record of a bulk request the handler fails on.
FirstFailure(records) == Min({i \in 1..Len(records) : BulkRecordRaises(records[i])})

\* C6: when a bulk request has failed on its k-th record, every record
\* before the k-th is in the store as written: one record of its triple,
\* carrying the values of the last of the records 1..k-1 that names the
\* student.
C6_NoRollback ==
    (/\ pc[Main] = "done"
     /\ req[Main].op = "bulk"
     /\ resp[Main].status = 500) =>
        LET inp == req[Main].input
            records == inp.attendance_records
            k == FirstFailure(records)
        IN \A i \in 1..(k - 1) :
              (\A j \in (i + 1)..(k - 1) : records[j].student_id /= records[i].student_id) =>
                 LET hits == RecordsOf(records[i].student_id, inp.class_id, inp.date)
                 IN /\ Cardinality(hits) = 1
                    /\ \A h \in hits :
                          /\ attendance[h].status = records[i].status
                          /\ attendance[h].marked_by = req[Main].user.id

\* C6 witness: a bulk request that failed on its second record after it
\* created the record of the first one.
C6_Witness ==
    /\ pc[Main] = "done"
    /\ req[Main].op = "bulk"
    /\ resp[Main].status = 500
    /\ idx[Main] = 2
    /\ results[Main] = <<[student_id |-> "s1", action |-> "created"]>>
    /\ RecordsOf("s1", "c1", "2024-01-05") /= {}

\* The days of the model in calendar order, and a day's place in it.
Calendar == <<"2024-01-05", "2024-01-10", "2024-02-01">>

Day(d) == CHOOSE i \in 1..Len(Calendar) : Calendar[i] = d

\* Day d is neither before day a nor after day b.
Between(d, a, b) == Day(a) <= Day(d) /\ Day(d) <= Day(b)

\* The documents of a response body, as a set.
Docs(body) == {body[k] : k \in 1..Len(body)}

\* C7: a query with a date and with both ends of a range returns exactly
\* the stored records of that date (that also pass the class_id and
\* student_id filters supplied), whether or not the date lies in the range.
C7_DateBeatsRange ==
    (/\ pc[Main] = "done"
     /\ req[Main].op = "query"
     /\ req[Main].input.date \in Dates
     /\ req[Main].input.start_date /= None
     /\ req[Main].input.end_date /= None) =>
        LET q == req[Main].input
            want == {i \in 1..Len(attendance) :
                        /\ attendance[i].date = q.date
                        /\ q.class_id /= None => attendance[i].class_id = q.class_id
                        /\ q.student_id /= None => attendance[i].student_id = q.student_id}
        IN /\ resp[Main].status = 200
           /\ Len(resp[Main].body) = Cardinality(want)
           /\ Docs(resp[Main].body) = {attendance[i] : i \in want}

\* C7 witness: a query for a day outside the range it also gives; the
\* record of that day is returned and a stored record inside the range is
\* not.
C7_Witness ==
    /\ pc[Main] = "done"
    /\ req[Main].op = "query"
    /\ req[Main].input.date = "2024-02-01"
    /\ req[Main].input.start_date = "2024-01-05"
    /\ req[Main].input.end_date = "2024-01-10"
    /\ Len(resp[Main].body) = 1
    /\ resp[Main].body[1].date = "2024-02-01"
    /\ \E i \in 1..Len(attendance) : attendance[i].date = "2024-01-05"

\* C8 (state part): a query without a date returns exactly the stored
\* records that pass every filter supplied: class_id, student_id, and the
\* range start_date..end_date with both ends included when both are given.
\* The caller does not enter the result; no filter gives every record.
C8_ResultIsTheFilteredStore ==
    (/\ pc[Main] = "done"
     /\ req[Main].op = "query"
     /\ req[Main].input.date \in {None, ""}) =>
        LET q == req[Main].input
            want == {i \in 1..Len(attendance) :
                        /\ q.class_id /= None => attendance[i].class_id = q.class_id
                        /\ q.student_id /= None => attendance[i].student_id = q.student_id
                        /\ (q.start_date /= None /\ q.end_date /= None) =>
                              Between(attendance[i].date, q.start_date, q.end_date)}
        IN /\ resp[Main].status = 200
           /\ Len(resp[Main].body) = Cardinality(want)
           /\ Docs(resp[Main].body) = {attendance[i] : i \in want}

\* C8 (step part): no step of a query request changes a collection.
C8_QueryWritesNothing ==
    req'[Main].op = "query" => (attendance' = attendance /\ students' = students)

\* C8: query returns exactly the records that satisfy all supplied filters,
\* the range ends included, every record when no filter is supplied,
\* whoever calls, and it never modifies the store.
C8_QueryFilters == []C8_ResultIsTheFilteredStore /\ [][C8_QueryWritesNothing]_vars

\* C8 witness: the admin, who marked nothing, asks for the range of the
\* first two days and gets the records of both ends but not the third day's.
C8_Witness ==
    /\ pc[Main] = "done"
    /\ req[Main].op = "query"
    /\ req[Main].user = Admin
    /\ req[Main].input = [class_id |-> None, student_id |-> None, date |-> None,
                          start_date |-> "2024-01-05", end_date |-> "2024-01-10"]
    /\ Len(attendance) = 3
    /\ {resp[Main].body[k].date : k \in 1..Len(resp[Main].body)}
          = {"2024-01-05", "2024-01-10"}
    /\ \E i \in 1..Len(attendance) : attendance[i].date = "2024-02-01"

\* The positions of the stored records of a report's class and range.
InReport(a) ==
    {i \in 1..Len(attendance) :
        /\ attendance[i].class_id = a.class_id
        /\ Between(attendance[i].date, a.start_date, a.end_date)}

\* C9: every entry of a report carries the same total_days, the number of
\* distinct dates among all stored records of the class within the range,
\* whichever student_id they name.
C9_TotalDaysIsClassWide ==
    (/\ pc[Main] = "done"
     /\ req[Main].op = "report"
     /\ resp[Main].status = 200) =>
        LET days == {attendance[i].date : i \in InReport(req[Main].input)}
        IN \A k \in 1..Len(resp[Main].report) :
              resp[Main].report[k].total_days = Cardinality(days)

\* C9 witness: the one enrolled student of the class was absent once; the
\* other day of the report comes from a record of a student id that is not
\* enrolled.
C9_Witness ==
    /\ pc[Main] = "done"
    /\ req[Main].op = "report"
    /\ resp[Main].status = 200
    /\ Len(students) = 1
    /\ Len(resp[Main].report) = 1
    /\ resp[Main].report[1].student_id = "s1"
    /\ resp[Main].report[1].total_days = 2
    /\ resp[Main].report[1].present = 0
    /\ resp[Main].report[1].absent = 1
    /\ \E i \in InReport(req[Main].input) : attendance[i].student_id = "s2"

Abs(x) == IF x < 0 THEN -x ELSE x

\* C10: in every entry of a report present, absent and late count the
\* student's own records of the class and range with exactly that status;
\* attendance_percentage (in hundredths) is 0 when total_days is 0 and
\* otherwise the hundredth nearest to present / total_days * 100; 3 of 5
\* gives 60.  A report with its three parameters is answered 200.
C10_CountsAndPercentage ==
    /\ Percentage(3, 5) = 6000
    /\ (/\ pc[Main] = "done"
        /\ req[Main].op = "report"
        /\ ValidReportArgs(req[Main].input)) =>
           LET a == req[Main].input
               days == Cardinality({attendance[i].date : i \in InReport(a)})
           IN /\ resp[Main].status = 200
              /\ \A k \in 1..Len(resp[Main].report) :
                    LET e == resp[Main].report[k]
                        own(st) == Cardinality({i \in InReport(a) :
                                       /\ attendance[i].student_id = e.student_id
                                       /\ attendance[i].status = st})
                    IN /\ e.present = own("present")
                       /\ e.absent = own("absent")
                       /\ e.late = own("late")
                       /\ days = 0 => e.attendance_percentage = 0
                       /\ days > 0 =>
                             2 * Abs(e.attendance_percentage * days
                                     - own("present") * 10000) <= days

\* C10 witness: present on two of three days and "excused" on the third,
\* which counts as neither present, absent nor late: 66.67.
C10_Witness ==
    /\ pc[Main] = "done"
    /\ req[Main].op = "report"
    /\ resp[Main].status = 200
    /\ Len(resp[Main].report) = 1
    /\ resp[Main].report[1].total_days = 3
    /\ resp[Main].report[1].present = 2
    /\ resp[Main].report[1].absent = 0
    /\ resp[Main].report[1].late = 0
    /\ resp[Main].report[1].attendance_percentage = 6667
    /\ \E i \in 1..Len(attendance) : attendance[i].status = "excused"

\* The four collections.
Store == <<users, classes, students, attendance>>

\* The positions of the stored students of class c.
Enrolled(c) == {j \in 1..Len(students) : students[j].class_id = c}

\* C11: a report has one entry per stored student of the requested class,
\* in the order of the students collection, and no other entry; a student
\* without a record of the class in the range has present, absent, late and
\* attendance_percentage 0.
C11_OneEntryPerStudent ==
    (/\ pc[Main] = "done"
     /\ req[Main].op = "report"
     /\ resp[Main].status = 200) =>
        LET a == req[Main].input
            report == resp[Main].report
            M == Enrolled(a.class_id)
        IN /\ Len(report) = Cardinality(M)
           /\ \A k \in 1..Len(report) :
                 \E j \in M :
                    /\ Cardinality({m \in M : m < j}) = k - 1
                    /\ report[k].student_id = students[j].id
                    /\ report[k].student_name = students[j].name
                    /\ report[k].roll_number = students[j].roll_number
                    /\ (\A i \in InReport(a) :
                            attendance[i].student_id /= students[j].id) =>
                          /\ report[k].present = 0
                          /\ report[k].absent = 0
                          /\ report[k].late = 0
                          /\ report[k].attendance_percentage = 0

\* C11: no step of get_attendance_report changes a collection.
C11_ReportWritesNothing ==
    (pc[Main] \in {"report_students", "report_attendance"}) => Store' = Store

\* C11: both parts.
C11_Report == []C11_OneEntryPerStudent /\ [][C11_ReportWritesNothing]_vars

\* C11 witness: of the two students of the class one has a record in the
\* range and the other has none; a third student belongs to another class
\* and is not reported.
C11_Witness ==
    /\ pc[Main] = "done"
    /\ req[Main].op = "report"
    /\ resp[Main].status = 200
    /\ Len(students) = 3
    /\ Len(resp[Main].report) = 2
    /\ resp[Main].report[1].present + resp[Main].report[1].absent
          + resp[Main].report[1].late = 1
    /\ resp[Main].report[2].total_days = 1
    /\ resp[Main].report[2].present = 0
    /\ resp[Main].report[2].attendance_percentage = 0

\* The positions of the stored classes with the id the request names.
Target == {i \in 1..Len(classes) : classes[i].id = req[Main].input.class_id}

\* The caller is an admin or the teacher the class belongs to.
MayActOn(i) ==
    req[Main].user.role = "admin" \/ classes[i].teacher_id = req[Main].user.id

\* The step that ends an update_class or delete_class request.
ClassRequestEnds ==
    /\ req[Main].op \in {"update_class", "delete_class"}
    /\ pc[Main] \in {"class_update_find", "class_update_write", "class_update_reread",
                     "class_delete_find", "class_delete_write"}
    /\ pc'[Main] = "done"

\* C12: an update or delete of a stored class is answered 200 exactly when
\* the caller is an admin or the class's teacher_id is the caller's id, and
\* 403 otherwise; after a 200 the class is gone (delete) or carries the
\* request's name, section and subject (update).
C12_OwnerOrAdmin ==
    ClassRequestEnds =>
        \A i \in Target :
           /\ resp'[Main].status = 200 <=> MayActOn(i)
           /\ ~MayActOn(i) => resp'[Main].status = 403
           /\ (resp'[Main].status = 200 /\ req[Main].op = "delete_class") =>
                 \A j \in 1..Len(classes') : classes'[j].id /= classes[i].id
           /\ (resp'[Main].status = 200 /\ req[Main].op = "update_class") =>
                 /\ classes' = classes
                 /\ classes[i].name = req[Main].input.body.name
                 /\ classes[i].section = req[Main].input.body.section
                 /\ classes[i].subject = req[Main].input.body.subject
                 /\ resp'[Main].body = classes[i]

C12_ClassAuthorization == [][C12_OwnerOrAdmin]_vars

\* C12 witness: a teacher was refused the deletion of another teacher's
\* class, which is still stored, next to a class the admin has changed.
C12_Witness ==
    /\ pc[Main] = "done"
    /\ req[Main].op = "delete_class"
    /\ req[Main].user = Teacher2
    /\ resp[Main].status = 403
    /\ \E i \in Target : classes[i].teacher_id = Teacher.id
    /\ \E j \in 1..Len(classes) :
          classes[j].teacher_id = Teacher.id /\ classes[j].name = "Maths"

\* C13: update_class and delete_class answer 404 exactly when no class has
\* the id, and 403 only for a stored class whose caller is neither admin nor
\* owner; a request answered 403 or 404 has changed no class: only a
\* request of an admin or the owner on a stored class changes the classes.
C13_FailureStep ==
    ClassRequestEnds =>
        /\ resp'[Main].status = 404 <=> Target = {}
        /\ resp'[Main].status = 403 =>
              Target /= {} /\ \A i \in Target : ~MayActOn(i)
        /\ resp'[Main].status \in {403, 404} => classes' = classes

C13_WriteStep ==
    (req[Main].op \in {"update_class", "delete_class"} /\ classes' /= classes) =>
        Target /= {} /\ \A i \in Target : MayActOn(i)

C13_NotFoundAndForbidden ==
    [][C13_FailureStep]_vars /\ [][C13_WriteStep]_vars

\* C13 witness: an admin's update of an id no class has was answered 404
\* while two classes are stored.
C13_Witness ==
    /\ pc[Main] = "done"
    /\ req[Main].op = "update_class"
    /\ req[Main].user = Admin
    /\ resp[Main].status = 404
    /\ Target = {}
    /\ Len(classes) = 2

\* C14: a listing answered to an admin holds every stored class, and a
\* listing answered to a teacher holds exactly the stored classes whose
\* teacher_id is the caller's id, each once.
C14_ListIsScoped ==
    (/\ pc[Main] = "done"
     /\ req[Main].op = "get_classes"
     /\ resp[Main].status = 200) =>
        LET body == resp[Main].body
            user == req[Main].user
            Mine == {i \in 1..Len(classes) : classes[i].teacher_id = user.id}
            Times(c) == Cardinality({k \in 1..Len(body) : body[k] = c})
        IN /\ user.role = "admin" =>
                 /\ Len(body) = Len(classes)
                 /\ \A i \in 1..Len(classes) : Times(classes[i]) = 1
           /\ user.role = "teacher" =>
                 /\ Len(body) = Cardinality(Mine)
                 /\ \A i \in Mine : Times(classes[i]) = 1
                 /\ \A k \in 1..Len(body) : body[k].teacher_id = user.id

\* C14 witness: a teacher who owns one of the three stored classes, the
\* others being another teacher's and the admin's, is listed that one.
C14_Witness ==
    /\ pc[Main] = "done"
    /\ req[Main].op = "get_classes"
    /\ req[Main].user = Teacher
    /\ resp[Main].status = 200
    /\ Len(resp[Main].body) = 1
    /\ {classes[i].teacher_id : i \in 1..Len(classes)} = {"u1", "u2", "u3"}

\* The credential is a token signed with the server's key that has not
\* expired and whose subject is the id of a stored user.
Resolves(cred) ==
    /\ cred.kind = "jwt"
    /\ cred.key = SECRET_KEY
    /\ cred.claims.exp > clock
    /\ "sub" \in DOMAIN cred.claims
    /\ \E i \in 1..Len(users) : users[i].id = cred.claims.sub

\* C15: a request to a protected route with a token that does not resolve
\* to a stored user (not a valid token, expired, without subject, or naming
\* an id that is not stored) is answered 401 by get_current_user, and no
\* collection changes.
C15_Refused ==
    (/\ pc[Main] = "auth"
     /\ req[Main].request.op \in Protected
     /\ req[Main].cred.kind /= "absent"
     /\ ~Resolves(req[Main].cred)) =>
        /\ pc'[Main] = "done"
        /\ resp'[Main].status = 401
        /\ Store' = Store

C15_Unauthenticated == [][C15_Refused]_vars

\* C16: create_student for a roll_number and class_id that a stored
\* student has, and register for an email that a stored user has, are
\* answered 400 at their first step, and no collection changes.
C16_DuplicateRefused ==
    /\ (/\ pc[Main] = "student_find"
        /\ \E i \in 1..Len(students) :
              /\ students[i].roll_number = req[Main].input.roll_number
              /\ students[i].class_id = req[Main].input.class_id) =>
          /\ pc'[Main] = "done"
          /\ resp'[Main].status = 400
          /\ Store' = Store
    /\ (/\ pc[Main] = "register_find"
        /\ \E i \in 1..Len(users) : users[i].email = req[Main].input.email) =>
          /\ pc'[Main] = "done"
          /\ resp'[Main].status = 400
          /\ Store' = Store

C16_Conflict == [][C16_DuplicateRefused]_vars

\* C16 witness: Dan was refused roll number r1 of class c1, which Ann has,
\* while r1 is also a roll number of class c2, and a user is registered.
C16_Witness ==
    /\ pc[Main] = "done"
    /\ req[Main].op = "create_student"
    /\ req[Main].input.name = "Dan"
    /\ resp[Main].status = 400
    /\ Len(users) = 1
    /\ Len(students) = 2
    /\ \E i, j \in 1..Len(students) :
          /\ students[i].roll_number = "r1" /\ students[i].class_id = "c1"
          /\ students[j].roll_number = "r1" /\ students[j].class_id = "c2"

\* The fields two stores are compared on.
Compared(r) ==
    [student_id |-> r.student_id, class_id |-> r.class_id, date |-> r.date,
     status |-> r.status, remarks |-> r.remarks, marked_by |-> r.marked_by]

\* markOne as the spec defines it, on a list of compared records: the record
\* of the triple takes the new status, remarks and marker, or is added.
MarkOne(store, m, uid) ==
    LET hits == {i \in 1..Len(store) :
                    /\ store[i].student_id = m.student_id
                    /\ store[i].class_id = m.class_id
                    /\ store[i].date = m.date}
        new == [student_id |-> m.student_id, class_id |-> m.class_id,
                date |-> m.date, status |-> m.status, remarks |-> m.remarks,
                marked_by |-> uid]
    IN IF hits = {} THEN Append(store, new)
       ELSE [store EXCEPT ![Min(hits)] = new]

RECURSIVE MarkEach(_, _, _, _)
\* markOne for the entries from position k on, in order.
MarkEach(store, entries, k, uid) ==
    IF k > Len(entries) THEN store
    ELSE LET e == entries[k]
             m == [student_id |-> e.student_id, class_id |-> "c1",
                   date |-> "2024-01-05", status |-> e.status,
                   remarks |-> IF "remarks" \in DOMAIN e THEN e.remarks ELSE None]
         IN MarkEach(MarkOne(store, m, uid), entries, k + 1, uid)

RECURSIVE SeedStore(_, _)
\* The store the batch starts from: the first k marks of the seed.
SeedStore(seed, k) ==
    IF k = 0 THEN <<>>
    ELSE MarkOne(SeedStore(seed, k - 1), seed[k][1], seed[k][2].id)

\* Every request of the plan has been answered.
PlanDone ==
    /\ pc[Main] \in {"idle", "done"}
    /\ calls = Len(plan.seed)
                 + (IF plan.mode = "bulk" THEN 1 ELSE Len(plan.entries))

\* C17: when the plan is done the attendance collection, compared on
\* student_id, class_id, date, status, remarks and marked_by, is what markOne
\* for each entry in order makes of the seeded store, whether the entries
\* were sent as one bulk request or as single marks; of two entries for one
\* student the later one's values are stored.
C17_BulkIsMarkEach ==
    PlanDone =>
        [i \in 1..Len(attendance) |-> Compared(attendance[i])]
            = MarkEach(SeedStore(plan.seed, Len(plan.seed)), plan.entries, 1,
                       plan.caller.id)

\* C17 witness: a bulk request with two entries for s1, whose seeded record
\* now carries the second entry's values and the bulk caller's id.
C17_Witness ==
    /\ PlanDone
    /\ plan.mode = "bulk"
    /\ Len(plan.seed) = 1
    /\ plan.caller = Teacher
    /\ plan.entries = <<Rec("s1", "present"), RecR("s1", "absent", "sick")>>
    /\ Len(attendance) = 1
    /\ attendance[1].status = "absent"
    /\ attendance[1].remarks = "sick"
    /\ attendance[1].marked_by = "u1"
    /\ resp[Main].status = 200

\* The stored record of the request's triple carries the request's status
\* and remarks and its caller's id: the request repeats the last mark of
\* the triple.
RepeatsLastMark ==
    /\ req[Main].op = "mark"
    /\ pc[Main] \in {"mark_find", "mark_update", "mark_reread", "mark_insert"}
    /\ \E i \in 1..Len(attendance) :
          /\ attendance[i].student_id = req[Main].input.student_id
          /\ attendance[i].class_id = req[Main].input.class_id
          /\ attendance[i].date = req[Main].input.date
          /\ attendance[i].status = req[Main].input.status
          /\ attendance[i].remarks = req[Main].input.remarks
          /\ attendance[i].marked_by = req[Main].user.id

\* C18: no step of a mark_attendance request that repeats the last mark of
\* its triple adds or removes a record or changes a field other than
\* updated_at, which does not decrease; the answer is 200 with the record.
C18_RepeatChangesNothing ==
    RepeatsLastMark =>
        /\ Len(attendance') = Len(attendance)
        /\ \A i \in 1..Len(attendance) :
              /\ attendance'[i] =
                    [attendance[i] EXCEPT !.updated_at = attendance'[i].updated_at]
              /\ attendance'[i].updated_at >= attendance[i].updated_at
        /\ pc'[Main] = "done" =>
              /\ resp'[Main].status = 200
              /\ \E i \in 1..Len(attendance) : resp'[Main].body = attendance[i]

C18_Idempotent == [][C18_RepeatChangesNothing]_vars

\* C18 witness: the second of two identical marks by the same caller has
\* written: the record found is the stored one but for a later updated_at.
C18_Witness ==
    /\ pc[Main] = "mark_reread"
    /\ RepeatsLastMark
    /\ existing[Main].status = req[Main].input.status
    /\ existing[Main].remarks = req[Main].input.remarks
    /\ existing[Main].marked_by = req[Main].user.id
    /\ Len(attendance) = 1
    /\ attendance[1].id = existing[Main].id
    /\ attendance[1].created_at = existing[Main].created_at
    /\ attendance[1].updated_at > existing[Main].updated_at

\* C19: when a bulk request has been answered, every well-formed record
\* that follows a failing record of its list has been applied (its triple
\* has a stored record with the status of that or a later well-formed
\* record for the student) and is reported in the results.
C19_FailureDoesNotStopTheBatch ==
    (/\ pc[Main] = "done"
     /\ req[Main].op = "bulk"
     /\ resp[Main].status /= 422) =>
        LET inp == req[Main].input
            records == inp.attendance_records
            Good == {j \in 1..Len(records) : ~BulkRecordRaises(records[j])}
            Bad == {j \in 1..Len(records) : BulkRecordRaises(records[j])}
        IN \A j \in Good :
              (\E b \in Bad : b < j) =>
                 /\ \E i \in RecordsOf(records[j].student_id, inp.class_id, inp.date) :
                       \E k \in Good :
                          /\ k >= j
                          /\ records[k].student_id = records[j].student_id
                          /\ attendance[i].status = records[k].status
                 /\ "results" \in DOMAIN resp[Main]
                 /\ \E n \in 1..Len(resp[Main].results) :
                       resp[Main].results[n].student_id = records[j].student_id

\* The triple of a record or of a request body.
Triple(r) == <<r.student_id, r.class_id, r.date>>

\* The triple process q is writing: that of its mark request, or of the
\* bulk record its loop is at.
Writing(q) ==
    IF req[q].op = "mark" THEN Triple(req[q].input)
    ELSE <<req[q].input.attendance_records[idx[q]].student_id,
           req[q].input.class_id, req[q].input.date>>

\* C20: a step that changes the attendance collection is a write of one
\* mark request or bulk entry; it adds at most one record, of that entry's
\* triple, and changes no stored record of any other triple.
C20_OnlyItsTriple ==
    attendance' /= attendance =>
        \E q \in Procs :
           /\ pc[q] \in {"mark_update", "mark_insert", "bulk_write"}
           /\ pc'[q] /= pc[q]
           /\ Len(attendance') \in {Len(attendance), Len(attendance) + 1}
           /\ \A i \in 1..Len(attendance) :
                 /\ Triple(attendance'[i]) = Triple(attendance[i])
                 /\ Triple(attendance[i]) /= Writing(q) =>
                       attendance'[i] = attendance[i]
           /\ Len(attendance') > Len(attendance) =>
                 Triple(attendance'[Len(attendance')]) = Writing(q)

\* C20: when two mark requests on different triples, sent at the same
\* time, have both been answered, the collection holds, on the compared
\* fields, what markOne for the one and then markOne for the other make of
\* the seeded store, however their steps interleaved.
C20_SameFinalStore ==
    (/\ pc["p1"] = "done" /\ pc["p2"] = "done"
     /\ calls = Len(plan.seed) + 2
     /\ plan.first.op = "mark" /\ plan.second.op = "mark") =>
        LET seeded == SeedStore(plan.seed, Len(plan.seed))
            one == MarkOne(seeded, plan.first.input, plan.first.user.id)
            both == MarkOne(one, plan.second.input, plan.second.user.id)
        IN /\ Len(attendance) = Len(both)
           /\ {Compared(attendance[i]) : i \in 1..Len(attendance)}
                 = {both[i] : i \in 1..Len(both)}

\* C20: both parts.
C20_TriplesAreIndependent == []C20_SameFinalStore /\ [][C20_OnlyItsTriple]_vars

\* C20 witness: both requests are answered; the second client's record for
\* class c2 was inserted before the first client's update of the seeded
\* record of s1 in class c1.
C20_Witness ==
    /\ pc["p1"] = "done" /\ pc["p2"] = "done"
    /\ calls = Len(plan.seed) + 2
    /\ plan.first.op = "mark" /\ plan.second.op = "mark"
    /\ Len(plan.seed) = 1
    /\ Len(attendance) = 2
    /\ attendance[1].class_id = "c1"
    /\ attendance[1].status = plan.first.input.status
    /\ attendance[1].marked_by = plan.first.user.id
    /\ attendance[1].created_at < attendance[1].updated_at
    /\ attendance[2].class_id = "c2"
    /\ attendance[2].updated_at < attendance[1].updated_at

(* ------------------------------- C21 --------------------------------- *)

\* The ids of the stored attendance records.
AttendanceIds == {attendance[i].id : i \in 1..Len(attendance)}

\* The student or class a delete request names is stored no more, and an
\* attendance record still refers to it.
Dangling(p) ==
    /\ resp[p].status = 200
    /\ \/ /\ req[p].op = "delete_student"
          /\ ~Found(find_one_id(students, req[p].input.student_id))
          /\ \E i \in 1..Len(attendance) :
                attendance[i].student_id = req[p].input.student_id
       \/ /\ req[p].op = "delete_class"
          /\ ~Found(find_one_id(classes, req[p].input.class_id))
          /\ \E i \in 1..Len(attendance) :
                attendance[i].class_id = req[p].input.class_id

\* C21 (first part): no step removes an attendance record, the set of
\* attendance record ids only grows.
C21_IdsOnlyGrow ==
    [][AttendanceIds \subseteq AttendanceIds']_vars

\* C21 (second part): a step of delete_student or delete_class leaves the
\* attendance collection as it was, the records that refer to the deleted
\* student or class included.
C21_DeleteKeepsAttendance ==
    [][\A p \in Procs :
          pc[p] \in {"student_delete", "class_delete_find", "class_delete_write"}
          /\ pc'[p] /= pc[p]
          => attendance' = attendance]_vars

\* C21: no operation removes an attendance record, and deleting a student or
\* a class leaves every attendance record that refers to it in place.
C21_AttendanceIsNeverRemoved == C21_IdsOnlyGrow /\ C21_DeleteKeepsAttendance

\* C21 witness: class k1 and student s1 have both been deleted, the class
\* last, and the record of s1 in k1 is still stored.
C21_Witness ==
    /\ req[Main].op = "delete_class"
    /\ Dangling(Main)
    /\ nextStu > 1
    /\ students = <<>>
    /\ \E i \in 1..Len(attendance) :
          attendance[i].student_id = "s1" /\ attendance[i].class_id = "k1"

(* ------------------------------- C22 --------------------------------- *)

\* A record that a step has just inserted has created_at = updated_at.
C22_CreatedWithOneNow ==
    [][\A j \in 1..Len(attendance') :
          attendance'[j].id \notin AttendanceIds
          => attendance'[j].created_at = attendance'[j].updated_at]_vars

\* No stored record was updated before it was created.
C22_UpdatedNotBeforeCreated ==
    \A i \in 1..Len(attendance) : attendance[i].updated_at >= attendance[i].created_at

\* A step that writes a stored record sets its updated_at to the reading of
\* the clock at that step, which is not before the value it had.
C22_UpdatedAtNeverDecreases ==
    [][\A i \in 1..Len(attendance), j \in 1..Len(attendance') :
          attendance'[j].id = attendance[i].id /\ attendance'[j] /= attendance[i]
          => /\ attendance'[j].updated_at = clock'
             /\ attendance'[j].updated_at >= attendance[i].updated_at]_vars

\* C22: a record created by mark_attendance or mark_bulk_attendance has
\* created_at equal to updated_at, every later mark of its triple sets
\* updated_at to the time of that call, so updated_at >= created_at always
\* and updated_at never decreases.
C22_Timestamps ==
    /\ C22_CreatedWithOneNow
    /\ []C22_UpdatedNotBeforeCreated
    /\ C22_UpdatedAtNeverDecreases

(* ------------------------------- C23 --------------------------------- *)

\* The records stored for student s in class c on day d with status st,
\* marked by user u.
Stored(s, c, d, st, u) ==
    \E i \in 1..Len(attendance) :
       /\ attendance[i].student_id = s
       /\ attendance[i].class_id = c
       /\ attendance[i].date = d
       /\ attendance[i].status = st
       /\ attendance[i].marked_by = u.id

\* C23: mark_attendance, mark_bulk_attendance, get_attendance and the report
\* answer 200 to every caller, whatever the caller's role, whoever owns the
\* class and whether or not the class and the student are stored, never 403
\* or 404, and the marks are stored.
C23_AnyCallerSucceeds ==
    \A p \in Procs :
       pc[p] = "done" /\ req[p].op \in {"mark", "bulk", "query", "report"}
       => /\ resp[p].status = 200
          /\ req[p].op = "mark"
             => Stored(req[p].input.student_id, req[p].input.class_id,
                       req[p].input.date, req[p].input.status, req[p].user)
          /\ req[p].op = "bulk"
             => \A k \in DOMAIN req[p].input.attendance_records :
                   Stored(req[p].input.attendance_records[k].student_id,
                          req[p].input.class_id, req[p].input.date,
                          req[p].input.attendance_records[k].status, req[p].user)

\* C23 witness: a teacher who does not own class k1 has marked attendance in
\* it for a student that is not stored, and the record is stored.
C23_Witness ==
    /\ pc[Main] = "done"
    /\ req[Main].op = "mark"
    /\ req[Main].user = Teacher2
    /\ req[Main].input.class_id = "k1"
    /\ \E i \in 1..Len(classes) :
          classes[i].id = "k1" /\ classes[i].teacher_id = Teacher.id
    /\ ~Found(find_one_id(students, req[Main].input.student_id))
    /\ resp[Main].status = 200
    /\ Stored("s9", "k1", "2024-01-05", req[Main].input.status, Teacher2)

(* ------------------------------- C24 --------------------------------- *)

\* Record r has the status, the remarks and the marked_by of the mark
\* request process p serves.
FromCall(r, p) ==
    /\ r.status = req[p].input.status
    /\ r.remarks = req[p].input.remarks
    /\ r.marked_by = req[p].user.id

\* The two processes have each served one mark_attendance request, on the
\* same triple and with different statuses, and no other request was sent.
TwoMarksOfOneTriple ==
    /\ calls = 2
    /\ \A p \in Procs : req[p].op = "mark" /\ pc[p] = "done"
    /\ req["p1"].input.student_id = req["p2"].input.student_id
    /\ req["p1"].input.class_id = req["p2"].input.class_id
    /\ req["p1"].input.date = req["p2"].input.date
    /\ req["p1"].input.status /= req["p2"].input.status

\* A write of mark_attendance leaves the record it writes with the status,
\* remarks and marked_by of the writing call, all three, and leaves every
\* other record as it was: a record carries the fields of the call whose
\* write to it was applied last.
C24_WriteIsWhole ==
    [][\A p \in Procs :
          pc[p] \in {"mark_update", "mark_insert"} /\ pc'[p] /= pc[p]
          => \A j \in 1..Len(attendance') :
                \/ j <= Len(attendance) /\ attendance'[j] = attendance[j]
                \/ FromCall(attendance'[j], p)]_vars

\* After two concurrent marks of one triple every record of the triple has
\* its three fields from one and the same call.
C24_NoMixture ==
    TwoMarksOfOneTriple
    => \A i \in RecordsOf(req["p1"].input.student_id, req["p1"].input.class_id,
                          req["p1"].input.date) :
          \E p \in Procs : FromCall(attendance[i], p)

\* After a write of mark_attendance the record of the triple, the one
\* find_one gives, has the three fields of the writing call: the surviving
\* record is the one of the call whose write was applied last.
C24_LastWriteSurvives ==
    [][\A p \in Procs :
          pc[p] \in {"mark_update", "mark_insert"} /\ pc'[p] /= pc[p]
          => FromCall(find_one_triple(attendance', req[p].input.student_id,
                                      req[p].input.class_id, req[p].input.date), p)]_vars

\* C24: when two mark_attendance calls on the same triple with different
\* statuses run concurrently, the surviving record's status, remarks and
\* marked_by all come from one call, the one whose write was applied last,
\* never from both.
C24_FieldsFromLastCall ==
    /\ []C24_NoMixture
    /\ C24_WriteIsWhole
    /\ C24_LastWriteSurvives

(* ------------------------------- C25 --------------------------------- *)

\* C25: in every report, whatever state it is produced in, the states
\* reached by concurrent marks included, each student's present + absent +
\* late is at most total_days and attendance_percentage (in hundredths) lies
\* between 0 and 100.
C25_ReportWithinBounds ==
    \A p \in Procs :
       pc[p] = "done" /\ req[p].op = "report" /\ resp[p].status = 200
       => \A k \in 1..Len(resp[p].report) :
             LET e == resp[p].report[k]
             IN /\ e.present + e.absent + e.late <= e.total_days
                /\ e.attendance_percentage >= 0
                /\ e.attendance_percentage <= 100 * 100

(* ------------------------------- C26 --------------------------------- *)

\* C26: the record mark_attendance returns to its caller has the status,
\* remarks and marked_by of that very call, on the create path and on the
\* update path, also when another mark of the same triple is served
\* concurrently.
C26_ReturnsItsOwnMark ==
    \A p \in Procs :
       pc[p] = "done" /\ req[p].op = "mark" /\ resp[p].status = 200
       => FromCall(resp[p].body, p)

(* ------------------------------- C27 --------------------------------- *)

\* C27: in every state reached by creating, updating and deleting
\* students, no two stored students have the same roll_number and class_id.
C27_RollNumberUniqueInClass ==
    \A i, j \in 1..Len(students) :
       (/\ students[i].roll_number = students[j].roll_number
        /\ students[i].class_id = students[j].class_id) => i = j

(* ------------------------------- C28 --------------------------------- *)

\* A class that a step has just stored belongs to the caller of the
\* create_class request that stored it.
C28_CreateSetsOwner ==
    [][\A j \in 1..Len(classes') :
          (\A i \in 1..Len(classes) : classes[i].id /= classes'[j].id)
          => /\ req[Main].op = "create_class"
             /\ classes'[j].teacher_id = req[Main].user.id]_vars

\* The write of update_class changes at most the name, section and subject
\* of the classes: each keeps its place, id, teacher_id and created_at.
C28_UpdateKeepsIdAndOwner ==
    [][pc[Main] = "class_update_write" /\ pc'[Main] /= pc[Main]
       => /\ Len(classes') = Len(classes)
          /\ \A i \in 1..Len(classes) :
                /\ classes'[i].id = classes[i].id
                /\ classes'[i].teacher_id = classes[i].teacher_id
                /\ classes'[i].created_at = classes[i].created_at]_vars

\* No step gives a stored class another teacher_id.
C28_OwnerNeverChanges ==
    [][\A i \in 1..Len(classes), j \in 1..Len(classes') :
          classes'[j].id = classes[i].id
          => classes'[j].teacher_id = classes[i].teacher_id]_vars

\* C28: a class's id and teacher_id never change after creation: create
\* sets teacher_id to the creating caller's id and update_class, by any
\* caller, changes only name, section and subject.
C28_OwnershipIsFixed ==
    /\ C28_CreateSetsOwner
    /\ C28_UpdateKeepsIdAndOwner
    /\ C28_OwnerNeverChanges

\* C28 witness: the admin has updated Teacher's class k1 with a body that
\* carried another id and Teacher2 as teacher_id; the class has the new
\* name and subject and is still k1 of Teacher.
C28_Witness ==
    /\ pc[Main] = "done"
    /\ req[Main].op = "update_class"
    /\ req[Main].user = Admin
    /\ req[Main].input.class_id = "k1"
    /\ resp[Main].status = 200
    /\ \E i \in 1..Len(classes) :
          /\ classes[i].id = "k1"
          /\ classes[i].teacher_id = Teacher.id
          /\ classes[i].name = "Maths"
          /\ classes[i].subject = "Algebra"
    /\ \A i \in 1..Len(classes) : classes[i].id /= "k9"

====
